---- MODULE Spec2Model ----
(***************************************************************************)
(* Wind-load calculator: the velocity-pressure engine (src/src/lib/wind.ts) *)
(* and the WindForm component that composes wall and roof pressures from it *)
(* (src/unnamed/part_000, lines 302-861).                                   *)
(*                                                                          *)
(* Numbers.  The program computes in IEEE-754 doubles.  The model computes  *)
(* exactly, on decimals of arbitrary length, and rounds where the program   *)
(* rounds (Math.round in roundTo, Number.prototype.toFixed).  A finite      *)
(* double is a record Num(v) holding v ten-thousandths; the other kinds are *)
(* undefined, NaN, +/-Infinity and Sub(n), the subnormal n * 2^-1074.       *)
(***************************************************************************)
EXTENDS Integers, Sequences, FiniteSets, TLC

VARIABLES
    form,      \* WindForm's FormState: every field as the string/boolean it holds
    out,       \* what the last render computed from form (isValid and the useMemo result)
    input,     \* the WindInput of the last direct call of calculateVelocityPressure
    locals,    \* the local constants of that call (kd, kzt, importance, computedKz, kz, kh)
    result,    \* the WindResult that call returned
    coef,      \* the coefficient lookups applied to a plan, a roof type and an enclosure
    diagram    \* RoofDiagram: its props, requested animation frame and image

vars == << form, out, input, locals, result, coef, diagram >>

----------------------------------------------------------------------------
(* JavaScript number values *)

Unit == 10 ^ 4

Undef == [k |-> "undef", v |-> 0]
NaN == [k |-> "nan", v |-> 0]
PosInf == [k |-> "inf", v |-> 1]
NegInf == [k |-> "inf", v |-> -1]
Num(v) == [k |-> "num", v |-> v]
Sub(n) == IF n = 0 THEN Num(0) ELSE [k |-> "sub", v |-> n]
Whole(n) == Num(n * Unit)

Abs(x) == IF x < 0 THEN -x ELSE x
Sign(x) == IF x < 0 THEN -1 ELSE IF x = 0 THEN 0 ELSE 1

\* isFinite / Number.isFinite on a number value
IsFinite(x) == x.k \in {"num", "sub"}

\* a ?? b
Coalesce(a, b) == IF a.k = "undef" THEN b ELSE a

\* x > 0, x < y and x <= y on number values (false when either is NaN)
IsPositive(x) ==
    \/ x.k \in {"num", "inf"} /\ x.v > 0
    \/ x.k = "sub"

\* Rank orders number values of different kinds: -Inf < finite < +Inf, and a
\* positive subnormal lies strictly between 0 and every positive Num.
LessThan(x, y) ==
    /\ x.k # "nan" /\ y.k # "nan" /\ x.k # "undef" /\ y.k # "undef"
    /\ CASE x.k = "inf" /\ y.k = "inf" -> x.v < y.v
         [] x.k = "inf" -> x.v < 0
         [] y.k = "inf" -> y.v > 0
         [] x.k = "num" /\ y.k = "num" -> x.v < y.v
         [] x.k = "sub" /\ y.k = "sub" -> x.v < y.v
         [] x.k = "sub" /\ y.k = "num" -> y.v > 0
         [] x.k = "num" /\ y.k = "sub" -> x.v <= 0

NumEq(x, y) ==
    /\ x.k # "nan" /\ y.k # "nan" /\ x.k # "undef" /\ y.k # "undef"
    /\ x = y

LessEq(x, y) == LessThan(x, y) \/ NumEq(x, y)

----------------------------------------------------------------------------
(* Exact decimal arithmetic: a natural number is its sequence of decimal     *)
(* digits, least significant first, without leading zeros.                  *)

RECURSIVE BigOfNat(_)
BigOfNat(n) ==
    IF n = 0 THEN << >> ELSE << n % 10 >> \o BigOfNat(n \div 10)

RECURSIVE BigToNat(_)
BigToNat(A) ==
    IF A = << >> THEN 0 ELSE Head(A) + 10 * BigToNat(Tail(A))

RECURSIVE BigTrim(_)
BigTrim(A) ==
    IF A = << >> THEN A
    ELSE IF A[Len(A)] = 0 THEN BigTrim(SubSeq(A, 1, Len(A) - 1))
    ELSE A

RECURSIVE BigMulCarry(_, _, _)
BigMulCarry(A, m, c) ==
    IF A = << >> THEN BigOfNat(c)
    ELSE LET t == Head(A) * m + c
         IN  << t % 10 >> \o BigMulCarry(Tail(A), m, t \div 10)

\* A * m for a natural m below 2 * 10^8
BigMul(A, m) == IF m = 0 THEN << >> ELSE BigMulCarry(A, m, 0)

RECURSIVE BigShift(_, _)
BigShift(A, n) ==
    IF A = << >> \/ n = 0 THEN A ELSE BigShift(<< 0 >> \o A, n - 1)

RECURSIVE BigCmpFrom(_, _, _)
BigCmpFrom(A, B, i) ==
    IF i = 0 THEN 0
    ELSE IF A[i] # B[i] THEN (IF A[i] < B[i] THEN -1 ELSE 1)
    ELSE BigCmpFrom(A, B, i - 1)

BigCmp(A, B) ==
    IF Len(A) # Len(B) THEN (IF Len(A) < Len(B) THEN -1 ELSE 1)
    ELSE BigCmpFrom(A, B, Len(A))

RECURSIVE BigAddCarry(_, _, _)
BigAddCarry(A, B, c) ==
    IF A = << >> /\ B = << >> THEN BigOfNat(c)
    ELSE LET a == IF A = << >> THEN 0 ELSE Head(A)
             b == IF B = << >> THEN 0 ELSE Head(B)
             t == a + b + c
         IN  << t % 10 >> \o BigAddCarry(IF A = << >> THEN A ELSE Tail(A),
                                         IF B = << >> THEN B ELSE Tail(B),
                                         t \div 10)

BigAdd(A, B) == BigAddCarry(A, B, 0)

RECURSIVE BigSubBorrow(_, _, _)
BigSubBorrow(A, B, br) ==
    IF A = << >> THEN << >>
    ELSE LET b == IF B = << >> THEN 0 ELSE Head(B)
             t == Head(A) - b - br
         IN  << IF t < 0 THEN t + 10 ELSE t >>
             \o BigSubBorrow(Tail(A), IF B = << >> THEN B ELSE Tail(B),
                             IF t < 0 THEN 1 ELSE 0)

\* A - B for A >= B
BigSub(A, B) == BigTrim(BigSubBorrow(A, B, 0))

\* Long division from the most significant digit A[i] down, r the running
\* remainder and Q the quotient digits found so far
RECURSIVE BigDivFrom(_, _, _, _, _)
BigDivFrom(A, d, i, r, Q) ==
    IF i = 0 THEN [q |-> Q, r |-> r]
    ELSE LET cur == r * 10 + A[i]
             nq  == IF Q = << >> /\ cur \div d = 0 THEN << >>
                    ELSE << cur \div d >> \o Q
         IN  BigDivFrom(A, d, i - 1, cur % d, nq)

\* quotient and remainder of A by a natural d below 2 * 10^8
BigDiv(A, d) ==
    IF d = 1 THEN [q |-> A, r |-> 0] ELSE BigDivFrom(A, d, Len(A), 0, << >>)

\* A decimal: sg * dg * 10^(-e)
Dec(sg, dg, e) == [sg |-> IF dg = << >> THEN 0 ELSE sg, dg |-> dg, e |-> e]

\* v * 10^(-e) without the trailing zeros of v
RECURSIVE StripZeros(_, _)
StripZeros(v, e) ==
    IF v # 0 /\ e > 0 /\ v % 10 = 0 THEN StripZeros(v \div 10, e - 1)
    ELSE [v |-> v, e |-> e]

DecOfInt(v, e) ==
    LET s == StripZeros(v, e) IN Dec(Sign(v), BigOfNat(Abs(s.v)), s.e)
DecOfNum(x) == DecOfInt(x.v, 4)

\* a times the integer v taken with e decimals
DecMulInt(a, v, e) ==
    LET s == StripZeros(v, e)
    IN  Dec(a.sg * Sign(v), BigMul(a.dg, Abs(s.v)), a.e + s.e)
DecMulNum(a, x) == DecMulInt(a, x.v, 4)

DecScaleTo(a, e) == Dec(a.sg, BigShift(a.dg, e - a.e), e)

DecNeg(a) == Dec(-a.sg, a.dg, a.e)

\* x - y or y - x for decimals of one scale and opposite signs, c comparing
\* their digits
DecDiff(x, y, c) ==
    IF c = 0 THEN Dec(0, << >>, x.e)
    ELSE IF c > 0 THEN Dec(x.sg, BigSub(x.dg, y.dg), x.e)
    ELSE Dec(y.sg, BigSub(y.dg, x.dg), x.e)

\* x + y for decimals of one scale
DecAddAligned(x, y) ==
    IF x.sg = 0 THEN y
    ELSE IF y.sg = 0 THEN x
    ELSE IF x.sg = y.sg THEN Dec(x.sg, BigAdd(x.dg, y.dg), x.e)
    ELSE DecDiff(x, y, BigCmp(x.dg, y.dg))

DecAddAt(a, b, e) == DecAddAligned(DecScaleTo(a, e), DecScaleTo(b, e))

DecAdd(a, b) == DecAddAt(a, b, IF a.e > b.e THEN a.e ELSE b.e)

DecSub(a, b) == DecAdd(a, DecNeg(b))

DigitAt(Q, k) == IF Len(Q) >= k THEN Q[k] ELSE 0
DigitsFrom(Q, k) == IF Len(Q) >= k THEN SubSeq(Q, k, Len(Q)) ELSE << >>
AnyBelow(Q, k) == \E i \in 1..(k - 1) : i <= Len(Q) /\ Q[i] # 0

\* sg * q moved to the next count when the dropped part, whose first digit
\* is top and whose rest is non-zero iff sticky, calls for it: "halfUp"
\* rounds a tie towards +Infinity (Math.round), "halfAway" away from zero
\* (toFixed).
RoundStep(sg, q, top, sticky, mode) ==
    IF top > 5 \/ (top = 5 /\ (sticky \/ mode = "halfAway" \/ sg >= 0))
    THEN sg * (q + 1)
    ELSE sg * q

\* Rounding sg * (qr.q + qr.r / den) * 10^(-k) to an integer, k >= 1
RoundQuotient(sg, qr, k, mode) ==
    RoundStep(sg, BigToNat(DigitsFrom(qr.q, k + 1)), DigitAt(qr.q, k),
              qr.r # 0 \/ AnyBelow(qr.q, k), mode)

RoundScaled(x, den, d, mode) == RoundQuotient(x.sg, BigDiv(x.dg, den), x.e - d, mode)

\* Rounding a / den to d decimals, as an integer count of 10^(-d)
DecRoundDiv(a, den, d, mode) ==
    RoundScaled(DecScaleTo(a, IF a.e > d THEN a.e ELSE d + 1), den, d, mode)

DecRound(a, d, mode) == DecRoundDiv(a, 1, d, mode)

----------------------------------------------------------------------------
(* src/src/lib/wind.ts *)

ExposureCategory == {"B", "C", "D"}
RiskCategory == {"I", "II", "III", "IV"}

\* Math.min / Math.max: NaN if either argument is NaN
MathMin(a, b) == IF a.k = "nan" \/ b.k = "nan" THEN NaN ELSE IF LessThan(b, a) THEN b ELSE a
MathMax(a, b) == IF a.k = "nan" \/ b.k = "nan" THEN NaN ELSE IF LessThan(a, b) THEN b ELSE a

\* roundTo(value, decimals) = Math.round(value * 10^decimals) / 10^decimals
RoundTo(a, decimals) == Num(DecRound(a, decimals, "halfUp") * 10 ^ (4 - decimals))

\* alpha, in tenths
GetAlpha(exposure) ==
    CASE exposure = "B" -> 70
      [] exposure = "C" -> 95
      [] exposure = "D" -> 115

GetZg(exposure) ==
    CASE exposure = "B" -> 1200
      [] exposure = "C" -> 900
      [] exposure = "D" -> 700

\* Exposure B: entry [c][i] is for (c - 1) * 25 + i + 9 feet
PowerLawB ==
    <<
       \* 10..34 ft
       <<
          511851, 525981, 539221, 551695, 563501, 574719, 585415, 595644, 605451, 614876,
          623954, 632713, 641179, 649374, 657318, 665030, 672524, 679815, 686916, 693837,
          700591, 707185, 713629, 719931, 726098
       >>,
       \* 35..59 ft
       <<
          732136, 738053, 743853, 749543, 755126, 760608, 765994, 771286, 776488, 781606,
          786640, 791596, 796475, 801280, 806015, 810680, 815280, 819816, 824290, 828704,
          833060, 837360, 841605, 845797, 849938
       >>,
       \* 60..84 ft
       <<
          854030, 858072, 862068, 866018, 869924, 873786, 877606, 881384, 885123, 888823,
          892484, 896109, 899697, 903249, 906768, 910252, 913703, 917122, 920509, 923866,
          927192, 930489, 933757, 936996, 940208
       >>,
       \* 85..109 ft
       <<
          943392, 946550, 949682, 952788, 955869, 958925, 961957, 964966, 967951, 970914,
          973854, 976771, 979668, 982543, 985397, 988231, 991044, 993838, 996612, 999367,
          1002103, 1004821, 1007520, 1010201, 1012865
       >>,
       \* 110..134 ft
       <<
          1015511, 1018141, 1020753, 1023349, 1025928, 1028491, 1031039, 1033570, 1036087, 1038588,
          1041074, 1043545, 1046002, 1048445, 1050873, 1053287, 1055688, 1058075, 1060449, 1062809,
          1065157, 1067492, 1069813, 1072123, 1074420
       >>,
       \* 135..159 ft
       <<
          1076705, 1078977, 1081238, 1083487, 1085725, 1087951, 1090165, 1092369, 1094561, 1096743,
          1098913, 1101074, 1103223, 1105362, 1107491, 1109609, 1111718, 1113817, 1115905, 1117984,
          1120054, 1122114, 1124164, 1126205, 1128237
       >>,
       \* 160..184 ft
       <<
          1130260, 1132274, 1134279, 1136275, 1138262, 1140241, 1142211, 1144173, 1146126, 1148071,
          1150008, 1151937, 1153858, 1155770, 1157675, 1159572, 1161462, 1163343, 1165217, 1167084,
          1168943, 1170795, 1172639, 1174477, 1176307
       >>,
       \* 185..209 ft
       <<
          1178130, 1179946, 1181755, 1183557, 1185352, 1187141, 1188923, 1190698, 1192466, 1194229,
          1195984, 1197733, 1199476, 1201213, 1202943, 1204667, 1206385, 1208097, 1209802, 1211502,
          1213196, 1214884, 1216566, 1218242, 1219913
       >>,
       \* 210..234 ft
       <<
          1221578, 1223237, 1224890, 1226538, 1228181, 1229818, 1231449, 1233076, 1234697, 1236312,
          1237922, 1239528, 1241127, 1242722, 1244312, 1245896, 1247476, 1249051, 1250620, 1252185,
          1253745, 1255300, 1256850, 1258396, 1259936
       >>,
       \* 235..259 ft
       <<
          1261472, 1263004, 1264531, 1266053, 1267570, 1269083, 1270592, 1272096, 1273596, 1275091,
          1276582, 1278069, 1279551, 1281029, 1282502, 1283972, 1285437, 1286898, 1288355, 1289808,
          1291257, 1292702, 1294143, 1295579, 1297012
       >>,
       \* 260..284 ft
       <<
          1298441, 1299866, 1301287, 1302704, 1304117, 1305527, 1306932, 1308334, 1309733, 1311127,
          1312518, 1313905, 1315288, 1316668, 1318044, 1319417, 1320786, 1322151, 1323513, 1324872,
          1326227, 1327578, 1328927, 1330271, 1331613
       >>,
       \* 285..309 ft
       <<
          1332951, 1334285, 1335617, 1336945, 1338269, 1339591, 1340909, 1342224, 1343535, 1344844,
          1346149, 1347452, 1348751, 1350047, 1351339, 1352629, 1353916, 1355200, 1356480, 1357758,
          1359032, 1360304, 1361573, 1362838, 1364101
       >>,
       \* 310..334 ft
       <<
          1365361, 1366618, 1367872, 1369123, 1370371, 1371617, 1372860, 1374100, 1375337, 1376571,
          1377802, 1379031, 1380257, 1381481, 1382701, 1383919, 1385135, 1386347, 1387557, 1388765,
          1389969, 1391172, 1392371, 1393568, 1394762
       >>,
       \* 335..359 ft
       <<
          1395954, 1397144, 1398330, 1399515, 1400696, 1401876, 1403053, 1404227, 1405399, 1406568,
          1407735, 1408900, 1410062, 1411222, 1412379, 1413535, 1414687, 1415838, 1416986, 1418131,
          1419275, 1420416, 1421555, 1422691, 1423826
       >>,
       \* 360..384 ft
       <<
          1424958, 1426088, 1427215, 1428340, 1429464, 1430584, 1431703, 1432820, 1433934, 1435046,
          1436156, 1437264, 1438370, 1439474, 1440575, 1441675, 1442772, 1443868, 1444961, 1446052,
          1447141, 1448228, 1449313, 1450396, 1451477
       >>,
       \* 385..409 ft
       <<
          1452556, 1453633, 1454708, 1455781, 1456852, 1457921, 1458988, 1460053, 1461117, 1462178,
          1463237, 1464295, 1465350, 1466404, 1467456, 1468505, 1469553, 1470600, 1471644, 1472686,
          1473727, 1474766, 1475803, 1476838, 1477871
       >>,
       \* 410..434 ft
       <<
          1478902, 1479932, 1480960, 1481986, 1483010, 1484033, 1485054, 1486073, 1487090, 1488106,
          1489120, 1490132, 1491142, 1492151, 1493158, 1494163, 1495167, 1496169, 1497169, 1498168,
          1499165, 1500160, 1501154, 1502146, 1503136
       >>,
       \* 435..459 ft
       <<
          1504125, 1505112, 1506098, 1507081, 1508064, 1509044, 1510024, 1511001, 1511977, 1512951,
          1513924, 1514895, 1515865, 1516833, 1517800, 1518765, 1519728, 1520690, 1521651, 1522610,
          1523567, 1524523, 1525478, 1526431, 1527382
       >>,
       \* 460..484 ft
       <<
          1528332, 1529281, 1530228, 1531174, 1532118, 1533060, 1534002, 1534941, 1535880, 1536817,
          1537752, 1538686, 1539619, 1540550, 1541480, 1542409, 1543336, 1544261, 1545186, 1546109,
          1547030, 1547950, 1548869, 1549787, 1550703
       >>,
       \* 485..509 ft
       <<
          1551617, 1552531, 1553443, 1554354, 1555263, 1556171, 1557078, 1557983, 1558887, 1559790,
          1560691, 1561592, 1562491, 1563388, 1564284, 1565179, 1566073, 1566966, 1567857, 1568747,
          1569636, 1570523, 1571409, 1572294, 1573178
       >>,
       \* 510..510 ft
       <<
          1574060
       >>
    >>

\* Exposure C: entry [c][i] is for (c - 1) * 25 + i + 9 feet
PowerLawC ==
    <<
       \* 10..34 ft
       <<
          779429, 795226, 809927, 823691, 836643, 848884, 860496, 871549, 882100, 892198,
          901885, 911196, 920164, 928816, 937175, 945264, 953102, 960704, 968088, 975266,
          982252, 989056, 995689, 1002160, 1008479
       >>,
       \* 35..59 ft
       <<
          1014652, 1020687, 1026592, 1032372, 1038033, 1043580, 1049019, 1054355, 1059591, 1064731,
          1069781, 1074742, 1079619, 1084415, 1089133, 1093775, 1098344, 1102844, 1107275, 1111641,
          1115944, 1120185, 1124367, 1128491, 1132559
       >>,
       \* 60..84 ft
       <<
          1136574, 1140536, 1144447, 1148309, 1152122, 1155889, 1159610, 1163287, 1166921, 1170513,
          1174064, 1177575, 1181048, 1184482, 1187880, 1191242, 1194568, 1197860, 1201118, 1204344,
          1207537, 1210700, 1213831, 1216933, 1220005
       >>,
       \* 85..109 ft
       <<
          1223048, 1226063, 1229051, 1232012, 1234946, 1237854, 1240737, 1243595, 1246429, 1249239,
          1252025, 1254788, 1257528, 1260247, 1262943, 1265618, 1268272, 1270906, 1273519, 1276112,
          1278685, 1281239, 1283775, 1286291, 1288790
       >>,
       \* 110..134 ft
       <<
          1291270, 1293732, 1296177, 1298605, 1301016, 1303411, 1305788, 1308150, 1310496, 1312827,
          1315141, 1317441, 1319726, 1321996, 1324251, 1326493, 1328720, 1330933, 1333132, 1335318,
          1337491, 1339650, 1341797, 1343930, 1346051
       >>,
       \* 135..159 ft
       <<
          1348160, 1350256, 1352340, 1354413, 1356473, 1358522, 1360559, 1362584, 1364599, 1366602,
          1368595, 1370577, 1372548, 1374508, 1376458, 1378398, 1380327, 1382247, 1384156, 1386056,
          1387946, 1389826, 1391697, 1393559, 1395411
       >>,
       \* 160..184 ft
       <<
          1397254, 1399088, 1400913, 1402729, 1404536, 1406335, 1408125, 1409907, 1411680, 1413445,
          1415202, 1416950, 1418691, 1420423, 1422148, 1423864, 1425574, 1427275, 1428969, 1430655,
          1432334, 1434006, 1435670, 1437327, 1438977
       >>,
       \* 185..209 ft
       <<
          1440620, 1442256, 1443885, 1445507, 1447122, 1448731, 1450333, 1451928, 1453517, 1455099,
          1456675, 1458244, 1459808, 1461365, 1462915, 1464460, 1465998, 1467531, 1469057, 1470578,
          1472093, 1473602, 1475105, 1476602, 1478094
       >>,
       \* 210..234 ft
       <<
          1479580, 1481060, 1482535, 1484005, 1485469, 1486928, 1488381, 1489829, 1491272, 1492709,
          1494142, 1495569, 1496991, 1498408, 1499820, 1501227, 1502629, 1504027, 1505419, 1506807,
          1508190, 1509568, 1510941, 1512310, 1513674
       >>,
       \* 235..259 ft
       <<
          1515034, 1516389, 1517739, 1519085, 1520427, 1521764, 1523096, 1524425, 1525749, 1527068,
          1528384, 1529695, 1531002, 1532305, 1533604, 1534898, 1536189, 1537475, 1538758, 1540036,
          1541311, 1542581, 1543848, 1545110, 1546369
       >>,
       \* 260..284 ft
       <<
          1547624, 1548876, 1550123, 1551367, 1552607, 1553843, 1555076, 1556305, 1557530, 1558752,
          1559970, 1561184, 1562395, 1563603, 1564807, 1566008, 1567205, 1568398, 1569589, 1570776,
          1571959, 1573140, 1574316, 1575490, 1576661
       >>,
       \* 285..309 ft
       <<
          1577828, 1578992, 1580152, 1581310, 1582464, 1583615, 1584763, 1585908, 1587050, 1588189,
          1589325, 1590458, 1591587, 1592714, 1593838, 1594958, 1596076, 1597191, 1598303, 1599412,
          1600518, 1601622, 1602722, 1603820, 1604915
       >>,
       \* 310..334 ft
       <<
          1606007, 1607096, 1608182, 1609266, 1610347, 1611426, 1612501, 1613574, 1614644, 1615712,
          1616777, 1617839, 1618899, 1619956, 1621011, 1622063, 1623112, 1624159, 1625204, 1626246,
          1627285, 1628322, 1629356, 1630388, 1631418
       >>,
       \* 335..359 ft
       <<
          1632445, 1633470, 1634492, 1635512, 1636529, 1637544, 1638557, 1639568, 1640576, 1641581,
          1642585, 1643586, 1644585, 1645582, 1646576, 1647568, 1648558, 1649546, 1650531, 1651515,
          1652496, 1653475, 1654451, 1655426, 1656398
       >>,
       \* 360..384 ft
       <<
          1657369, 1658337, 1659303, 1660267, 1661229, 1662188, 1663146, 1664102, 1665055, 1666007,
          1666956, 1667904, 1668849, 1669793, 1670734, 1671673, 1672611, 1673547, 1674480, 1675412,
          1676341, 1677269, 1678195, 1679119, 1680041
       >>,
       \* 385..409 ft
       <<
          1680961, 1681879, 1682796, 1683710, 1684623, 1685534, 1686443, 1687350, 1688255, 1689158,
          1690060, 1690960, 1691858, 1692754, 1693649, 1694542, 1695433, 1696322, 1697209, 1698095,
          1698979, 1699861, 1700742, 1701621, 1702498
       >>,
       \* 410..434 ft
       <<
          1703374, 1704247, 1705119, 1705990, 1706859, 1707726, 1708591, 1709455, 1710317, 1711178,
          1712037, 1712894, 1713750, 1714604, 1715457, 1716308, 1717157, 1718005, 1718851, 1719696,
          1720539, 1721381, 1722221, 1723059, 1723896
       >>,
       \* 435..459 ft
       <<
          1724732, 1725566, 1726398, 1727229, 1728059, 1728887, 1729713, 1730538, 1731362, 1732184,
          1733004, 1733823, 1734641, 1735457, 1736272, 1737086, 1737897, 1738708, 1739517, 1740325,
          1741131, 1741936, 1742740, 1743542, 1744342
       >>,
       \* 460..484 ft
       <<
          1745142, 1745940, 1746737, 1747532, 1748326, 1749118, 1749910, 1750699, 1751488, 1752275,
          1753061, 1753846, 1754629, 1755411, 1756192, 1756971, 1757749, 1758526, 1759301, 1760076,
          1760848, 1761620, 1762391, 1763160, 1763928
       >>,
       \* 485..509 ft
       <<
          1764694, 1765460, 1766224, 1766987, 1767748, 1768509, 1769268, 1770026, 1770783, 1771538,
          1772293, 1773046, 1773798, 1774549, 1775298, 1776047, 1776794, 1777540, 1778285, 1779028,
          1779771, 1780512, 1781253, 1781992, 1782730
       >>,
       \* 510..510 ft
       <<
          1783466
       >>
    >>

\* Exposure D: entry [c][i] is for (c - 1) * 25 + i + 9 feet
PowerLawD ==
    <<
       \* 10..34 ft
       <<
          960084, 976131, 991014, 1004906, 1017941, 1030229, 1041858, 1052900, 1063419, 1073466,
          1083084, 1092314, 1101187, 1109733, 1117977, 1125942, 1133649, 1141114, 1148354, 1155384,
          1162216, 1168863, 1175334, 1181641, 1187792
       >>,
       \* 35..59 ft
       <<
          1193795, 1199658, 1205388, 1210992, 1216475, 1221843, 1227101, 1232255, 1237308, 1242265,
          1247129, 1251905, 1256597, 1261206, 1265737, 1270192, 1274574, 1278885, 1283129, 1287307,
          1291421, 1295475, 1299469, 1303405, 1307286
       >>,
       \* 60..84 ft
       <<
          1311112, 1314887, 1318610, 1322285, 1325911, 1329491, 1333026, 1336517, 1339965, 1343371,
          1346737, 1350064, 1353351, 1356602, 1359816, 1362994, 1366137, 1369246, 1372322, 1375366,
          1378378, 1381359, 1384310, 1387232, 1390124
       >>,
       \* 85..109 ft
       <<
          1392988, 1395824, 1398634, 1401416, 1404173, 1406904, 1409610, 1412292, 1414950, 1417584,
          1420196, 1422784, 1425351, 1427896, 1430419, 1432921, 1435403, 1437865, 1440306, 1442729,
          1445132, 1447516, 1449882, 1452229, 1454559
       >>,
       \* 110..134 ft
       <<
          1456871, 1459166, 1461443, 1463704, 1465949, 1468177, 1470390, 1472586, 1474767, 1476933,
          1479085, 1481221, 1483342, 1485450, 1487543, 1489623, 1491688, 1493741, 1495779, 1497805,
          1499818, 1501818, 1503806, 1505781, 1507744
       >>,
       \* 135..159 ft
       <<
          1509695, 1511633, 1513561, 1515476, 1517380, 1519273, 1521155, 1523026, 1524886, 1526735,
          1528574, 1530402, 1532220, 1534027, 1535825, 1537613, 1539390, 1541159, 1542917, 1544666,
          1546406, 1548136, 1549858, 1551570, 1553273
       >>,
       \* 160..184 ft
       <<
          1554968, 1556654, 1558331, 1560000, 1561660, 1563312, 1564956, 1566591, 1568218, 1569838,
          1571449, 1573053, 1574649, 1576238, 1577818, 1579392, 1580958, 1582516, 1584067, 1585612,
          1587149, 1588678, 1590201, 1591718, 1593227
       >>,
       \* 185..209 ft
       <<
          1594729, 1596225, 1597714, 1599197, 1600673, 1602143, 1603606, 1605063, 1606514, 1607958,
          1609397, 1610829, 1612256, 1613676, 1615090, 1616499, 1617902, 1619299, 1620690, 1622076,
          1623456, 1624830, 1626199, 1627563, 1628921
       >>,
       \* 210..234 ft
       <<
          1630274, 1631621, 1632963, 1634300, 1635632, 1636959, 1638280, 1639597, 1640908, 1642215,
          1643517, 1644813, 1646105, 1647393, 1648675, 1649953, 1651226, 1652494, 1653758, 1655017,
          1656272, 1657522, 1658767, 1660009, 1661245
       >>,
       \* 235..259 ft
       <<
          1662478, 1663706, 1664930, 1666150, 1667365, 1668576, 1669783, 1670986, 1672185, 1673380,
          1674570, 1675757, 1676940, 1678119, 1679293, 1680464, 1681631, 1682795, 1683954, 1685110,
          1686262, 1687410, 1688554, 1689695, 1690832
       >>,
       \* 260..284 ft
       <<
          1691966, 1693096, 1694222, 1695345, 1696465, 1697580, 1698693, 1699802, 1700907, 1702009,
          1703108, 1704203, 1705295, 1706384, 1707469, 1708551, 1709630, 1710706, 1711778, 1712848,
          1713914, 1714977, 1716037, 1717093, 1718147
       >>,
       \* 285..309 ft
       <<
          1719198, 1720245, 1721290, 1722331, 1723370, 1724406, 1725438, 1726468, 1727495, 1728519,
          1729540, 1730558, 1731573, 1732586, 1733596, 1734603, 1735607, 1736608, 1737607, 1738603,
          1739596, 1740587, 1741575, 1742560, 1743542
       >>,
       \* 310..334 ft
       <<
          1744522, 1745500, 1746475, 1747447, 1748417, 1749384, 1750348, 1751310, 1752270, 1753227,
          1754182, 1755134, 1756083, 1757031, 1757975, 1758918, 1759858, 1760796, 1761731, 1762664,
          1763594, 1764523, 1765449, 1766372, 1767294
       >>,
       \* 335..359 ft
       <<
          1768213, 1769130, 1770044, 1770956, 1771867, 1772774, 1773680, 1774584, 1775485, 1776384,
          1777281, 1778176, 1779069, 1779959, 1780848, 1781734, 1782618, 1783501, 1784381, 1785259,
          1786135, 1787009, 1787881, 1788751, 1789619
       >>,
       \* 360..384 ft
       <<
          1790485, 1791349, 1792211, 1793071, 1793929, 1794785, 1795639, 1796491, 1797342, 1798190,
          1799037, 1799882, 1800724, 1801565, 1802404, 1803241, 1804077, 1804910, 1805742, 1806572,
          1807400, 1808226, 1809051, 1809874, 1810695
       >>,
       \* 385..409 ft
       <<
          1811514, 1812331, 1813147, 1813961, 1814773, 1815583, 1816392, 1817199, 1818005, 1818808,
          1819610, 1820411, 1821209, 1822006, 1822802, 1823595, 1824387, 1825178, 1825967, 1826754,
          1827539, 1828323, 1829106, 1829886, 1830666
       >>,
       \* 410..434 ft
       <<
          1831443, 1832219, 1832994, 1833767, 1834538, 1835308, 1836077, 1836843, 1837609, 1838372,
          1839135, 1839896, 1840655, 1841413, 1842169, 1842924, 1843677, 1844429, 1845180, 1845929,
          1846676, 1847423, 1848167, 1848911, 1849653
       >>,
       \* 435..459 ft
       <<
          1850393, 1851132, 1851870, 1852606, 1853341, 1854075, 1854807, 1855537, 1856267, 1856995,
          1857722, 1858447, 1859171, 1859894, 1860615, 1861335, 1862054, 1862771, 1863487, 1864202,
          1864915, 1865628, 1866338, 1867048, 1867756
       >>,
       \* 460..484 ft
       <<
          1868463, 1869169, 1869874, 1870577, 1871279, 1871980, 1872679, 1873378, 1874075, 1874770,
          1875465, 1876158, 1876850, 1877541, 1878231, 1878920, 1879607, 1880293, 1880978, 1881662,
          1882344, 1883026, 1883706, 1884385, 1885063
       >>,
       \* 485..509 ft
       <<
          1885740, 1886416, 1887090, 1887763, 1888436, 1889107, 1889777, 1890445, 1891113, 1891780,
          1892445, 1893109, 1893773, 1894435, 1895096, 1895756, 1896415, 1897072, 1897729, 1898385,
          1899039, 1899693, 1900345, 1900996, 1901647
       >>,
       \* 510..510 ft
       <<
          1902296
       >>
    >>

\* The feet for which the power law is tabulated: a margin around [15, 500]
PowerLawFeet == 10..510

\* The table's entry for a whole number of feet
PowerLawEntry(table, feet) == table[(feet - 10) \div 25 + 1][((feet - 10) % 25) + 1]

\* 2.01 * Math.pow(z / zg, 2 / alpha) in millionths (truncated), z in feet.
\* Math.pow is the platform's; its values are tabulated for whole feet.
PowerLaw(z, zg, alpha) ==
    CASE z.v % Unit = 0 /\ z.v \div Unit \in PowerLawFeet /\ zg = 1200 /\ alpha = 70 ->
            PowerLawEntry(PowerLawB, z.v \div Unit)
      [] z.v % Unit = 0 /\ z.v \div Unit \in PowerLawFeet /\ zg = 900 /\ alpha = 95 ->
            PowerLawEntry(PowerLawC, z.v \div Unit)
      [] z.v % Unit = 0 /\ z.v \div Unit \in PowerLawFeet /\ zg = 700 /\ alpha = 115 ->
            PowerLawEntry(PowerLawD, z.v \div Unit)

\* Mutations of the clamp: a floor of 14 ft, and a ceiling that wraps around
\* (heightFt % 500, for a height >= 0) instead of holding
ClampHeightFrom14(heightFt) == MathMax(Whole(14), MathMin(heightFt, Whole(500)))
ClampHeightWrapped(heightFt) ==
    IF heightFt.k = "num" /\ heightFt.v >= 0
    THEN MathMax(Whole(15), Num(heightFt.v % (500 * Unit)))
    ELSE MathMax(Whole(15), MathMin(heightFt, Whole(500)))

\* const z = Math.max(15, Math.min(heightFt, 500))
ClampHeight(heightFt) == MathMax(Whole(15), MathMin(heightFt, Whole(500)))

\* A mutation of the rounding: roundTo(kz, 2)
GetKzTwoDecimals(exposure, heightFt) ==
    LET z == ClampHeight(heightFt)
    IN  IF z.k # "num" THEN NaN
        ELSE RoundTo(DecOfInt(PowerLaw(z, GetZg(exposure), GetAlpha(exposure)), 6), 2)

GetKz(exposure, heightFt) ==
    LET z == ClampHeight(heightFt)
    IN  IF z.k # "num" THEN NaN
        ELSE RoundTo(DecOfInt(PowerLaw(z, GetZg(exposure), GetAlpha(exposure)), 6), 3)

\* A mutation of the table: the case "IV" is missing
GetImportanceFactorWithoutIV(riskCategory) ==
    CASE riskCategory = "I" -> Num(8700)
      [] riskCategory = "II" -> Num(10000)
      [] riskCategory = "III" -> Num(11500)
      [] OTHER -> Num(10000)

GetImportanceFactor(riskCategory) ==
    CASE riskCategory = "I" -> Num(8700)
      [] riskCategory = "II" -> Num(10000)
      [] riskCategory = "III" -> Num(11500)
      [] riskCategory = "IV" -> Num(11500)
      [] OTHER -> Num(10000)

\* A mutation of the selection: input.overrideKz ?? computedKz
EffectiveKzNullish(overrideKz, computedKz) == Coalesce(overrideKz, computedKz)

\* Number.isFinite(input.overrideKz ?? NaN) ? input.overrideKz : computedKz
EffectiveKz(overrideKz, computedKz) ==
    IF IsFinite(Coalesce(overrideKz, NaN)) THEN overrideKz ELSE computedKz

\* The class of a product of doubles one of which is not finite
NonFiniteProduct(fs) ==
    IF \/ \E i \in 1..Len(fs) : fs[i].k = "nan"
       \/ \E i \in 1..Len(fs) : fs[i].k = "num" /\ fs[i].v = 0
    THEN NaN
    ELSE IF Cardinality({i \in 1..Len(fs) : fs[i].v < 0}) % 2 = 0 THEN PosInf ELSE NegInf

RECURSIVE DecProduct(_, _)
DecProduct(a, fs) ==
    IF fs = << >> THEN a ELSE DecProduct(DecMulNum(a, Head(fs)), Tail(fs))

\* qz = 0.00256 * kz * kzt * kh * V * V * importance, rounded by roundTo(qz, 3)
VelocityPressure(kz, kzt, kh, windSpeedMph, importance) ==
    LET fs == << kz, kzt, kh, windSpeedMph, windSpeedMph, importance >>
    IN  IF \A i \in 1..Len(fs) : fs[i].k = "num"
        THEN RoundTo(DecProduct(DecOfInt(256, 5), fs), 3)
        ELSE NonFiniteProduct(fs)

\* x.toFixed(d): the text of x with d decimals, held as a count of 10^(-d)
ToFixed(x, d) ==
    CASE x.k = "num" -> [s |-> "num", v |-> DecRound(DecOfNum(x), d, "halfAway"), d |-> d]
      [] x.k = "sub" -> [s |-> "num", v |-> 0, d |-> d]
      [] x.k = "nan" -> [s |-> "NaN", v |-> 0, d |-> d]
      [] x.k = "inf" -> [s |-> "Infinity", v |-> x.v, d |-> d]

\* kz !== computedKz
StrictNotEqual(a, b) == ~NumEq(a, b)

\* The local constants of a call of calculateVelocityPressure
LocalsOf(in, riskCategory, computedKz) ==
    [kd           |-> Coalesce(in.directionalityFactor, Num(8500)),
     kzt          |-> Coalesce(in.topographicFactor, Num(10000)),
     riskCategory |-> riskCategory,
     importance   |-> GetImportanceFactor(riskCategory),
     computedKz   |-> computedKz,
     kz           |-> EffectiveKz(in.overrideKz, computedKz),
     kh           |-> Coalesce(in.khFactor, Num(10000))]

\* const riskCategory = input.riskCategory ?? "II"
Locals(in) ==
    LocalsOf(in, IF in.riskCategory = "undefined" THEN "II" ELSE in.riskCategory,
             GetKz(in.exposure, in.heightFt))

FactorsNote(l) ==
    [kind |-> "factors", riskCategory |-> l.riskCategory, kd |-> ToFixed(l.kd, 2),
     kzt |-> ToFixed(l.kzt, 2), importance |-> ToFixed(l.importance, 2),
     kz |-> ToFixed(l.kz, 3), kh |-> ToFixed(l.kh, 2)]

OverrideNote(l) == [kind |-> "override", auto |-> ToFixed(l.computedKz, 3)]

FormulaNote == [kind |-> "formula"]

\* if (kz !== computedKz) pressureNotes.push(`Manual Kz override used ...`)
OverrideNotes(l) ==
    IF StrictNotEqual(l.kz, l.computedKz) THEN << OverrideNote(l) >> ELSE << >>

\* A mutation of the result: the override note pushed after the formula note
WindResultOverrideLast(in, l) ==
    [velocityPressurePsf |->
         VelocityPressure(l.kz, l.kzt, l.kh, in.windSpeedMph, l.importance),
     pressureNotes |-> << FactorsNote(l), FormulaNote >> \o OverrideNotes(l)]

\* A mutation of the result: Kd multiplied into the velocity pressure
WindResultTimesKd(in, l) ==
    [velocityPressurePsf |->
         VelocityPressure(l.kz, l.kzt, l.kh, in.windSpeedMph,
                          IF l.kd.k = "num" /\ l.importance.k = "num"
                          THEN Num((l.importance.v * l.kd.v) \div Unit) ELSE l.kd),
     pressureNotes |-> << FactorsNote(l) >> \o OverrideNotes(l) \o << FormulaNote >>]

\* The WindResult of a call whose local constants are l
WindResult(in, l) ==
    [velocityPressurePsf |->
         VelocityPressure(l.kz, l.kzt, l.kh, in.windSpeedMph, l.importance),
     pressureNotes |-> << FactorsNote(l) >> \o OverrideNotes(l) \o << FormulaNote >>]

CalculateVelocityPressure(in) == WindResult(in, Locals(in))

\* getGcpiEnclosed()
GetGcpiEnclosed == [positive |-> Num(1800), negative |-> Num(-1800)]

WindInput(v, exposure, heightFt, kd, kzt, riskCategory, overrideKz, kh) ==
    [windSpeedMph |-> v, exposure |-> exposure, heightFt |-> heightFt,
     directionalityFactor |-> kd, topographicFactor |-> kzt,
     riskCategory |-> riskCategory, overrideKz |-> overrideKz, khFactor |-> kh]

----------------------------------------------------------------------------
(* src/unnamed/part_000, lines 302-861: WindForm and its helpers *)

RoofType == {"flat", "sloped"}
BuildingEnclosure == {"enclosed", "partially_enclosed"}

\* Number(text) for the texts a form field holds in the model.  A number
\* input yields "" for anything that is not a number, and Number("") is 0.
JsNumber(text) ==
    CASE text = "" -> Num(0)
      [] text = "1e999" -> PosInf
      [] text = "5e-324" -> Sub(1)
      [] text = "0" -> Num(0)
      [] text = "0.3" -> Num(3000)
      [] text = "0.5" -> Num(5000)
      [] text = "0.575" -> Num(5750)
      [] text = "0.85" -> Num(8500)
      [] text = "1" -> Whole(1)
      [] text = "1.2" -> Num(12000)
      [] text = "2.5" -> Num(25000)
      [] text = "3" -> Whole(3)
      [] text = "4" -> Whole(4)
      [] text = "5" -> Whole(5)
      [] text = "6" -> Whole(6)
      [] text = "10" -> Whole(10)
      [] text = "15" -> Whole(15)
      [] text = "20" -> Whole(20)
      [] text = "25" -> Whole(25)
      [] text = "30" -> Whole(30)
      [] text = "31" -> Whole(31)
      [] text = "50" -> Whole(50)
      [] text = "75" -> Whole(75)
      [] text = "90" -> Whole(90)
      [] text = "100" -> Whole(100)
      [] text = "115" -> Whole(115)
      [] text = "150" -> Whole(150)
      [] text = "300" -> Whole(300)
      [] text = "1000" -> Whole(1000)

\* Math.floor
MathFloor(x) == IF x.k = "num" THEN Num((x.v \div Unit) * Unit) ELSE IF x.k = "sub" THEN Num(0) ELSE x

\* Number.isInteger
IsInteger(x) == x.k = "num" /\ x.v % Unit = 0

\* n * sh for a whole n
TimesWhole(n, x) == Num((n.v \div Unit) * x.v)

\* A mutation of the reference height: the top of the story, i * sh
StoryTopHeight(i, sh) == Num(i * sh.v)

\* (i - 0.5) * sh
MidHeight(i, sh) ==
    CASE ((2 * i - 1) * sh.v) % 2 = 0 -> Num(((2 * i - 1) * sh.v) \div 2)

RECURSIVE Gcd(_, _)
Gcd(a, b) == IF b = 0 THEN a ELSE Gcd(b, a % b)

\* The rational n / d in lowest terms, d > 0
Rat(n, d) ==
    LET g == Gcd(Abs(n), Abs(d))
    IN  [n |-> (Sign(d) * n) \div g, d |-> Abs(d) \div g]
RatAdd(a, b) == Rat(a.n * b.d + b.n * a.d, a.d * b.d)
RatSub(a, b) == Rat(a.n * b.d - b.n * a.d, a.d * b.d)
RatMul(a, b) == Rat(a.n * b.n, a.d * b.d)
RatDiv(a, b) == Rat(a.n * b.d, a.d * b.n)
RatLeq(a, b) == a.n * b.d <= b.n * a.d
Tenths(t) == Rat(t, 10)

\* roofL / roofB for finite positive dimensions, as [inf, r]: the quotient of
\* a Num by a subnormal overflows to +Infinity; that of a subnormal by a Num
\* is below every band limit and is held as 0.
LbRatio(roofL, roofB) ==
    CASE roofL.k = "num" /\ roofB.k = "num" -> [inf |-> FALSE, r |-> Rat(roofL.v, roofB.v)]
      [] roofL.k = "sub" /\ roofB.k = "sub" -> [inf |-> FALSE, r |-> Rat(roofL.v, roofB.v)]
      [] roofL.k = "num" /\ roofB.k = "sub" -> [inf |-> TRUE, r |-> Rat(1, 1)]
      [] roofL.k = "sub" /\ roofB.k = "num" -> [inf |-> FALSE, r |-> Rat(0, 1)]

\* lbRatio <= limit
RatioLeq(lb, limit) == ~lb.inf /\ RatLeq(lb.r, limit)

\* A mutation of the interpolation: a step that holds the lower value
InterpolateStep(lo, ratio, ratioLo, hi, ratioHi) == lo

\* lo + (ratio - ratioLo) * (hi - lo) / (ratioHi - ratioLo)
Interpolate(lo, ratio, ratioLo, hi, ratioHi) ==
    RatAdd(lo, RatDiv(RatMul(RatSub(ratio, ratioLo), RatSub(hi, lo)), RatSub(ratioHi, ratioLo)))

LeewardCp(lbRatio) ==
    IF RatioLeq(lbRatio, Tenths(10)) THEN Tenths(-5)
    ELSE IF RatioLeq(lbRatio, Tenths(20))
         THEN Interpolate(Tenths(-5), lbRatio.r, Tenths(10), Tenths(-3), Tenths(20))
    ELSE IF RatioLeq(lbRatio, Tenths(40))
         THEN Interpolate(Tenths(-3), lbRatio.r, Tenths(20), Tenths(-2), Tenths(40))
    ELSE Tenths(-2)

CalculateWallCpValues(roofL, roofB) ==
    [windward |-> Tenths(8), leeward |-> LeewardCp(LbRatio(roofL, roofB)),
     sidewall |-> Tenths(-7)]

\* A mutation of the bands: upper bounds exclusive (lbRatio < limit)
RoofCpValuesExclusive(roofType, lbRatio) ==
    IF roofType = "flat"
    THEN IF ~lbRatio.inf /\ ~RatLeq(Tenths(5), lbRatio.r) THEN << Tenths(8), Tenths(5), Tenths(-7) >>
         ELSE IF ~lbRatio.inf /\ ~RatLeq(Tenths(10), lbRatio.r) THEN << Tenths(7), Tenths(5), Tenths(-6) >>
         ELSE IF ~lbRatio.inf /\ ~RatLeq(Tenths(20), lbRatio.r) THEN << Tenths(6), Tenths(5), Tenths(-5) >>
         ELSE << Tenths(5), Tenths(5), Tenths(-4) >>
    ELSE << Tenths(3), Tenths(-7) >>

\* The flat-roof record is {zone1, zone2, zone3}, the sloped one {windward,
\* leeward}; the model holds them as the sequence of their values in order.
RoofCpValues(roofType, lbRatio) ==
    IF roofType = "flat"
    THEN IF RatioLeq(lbRatio, Tenths(5)) THEN << Tenths(8), Tenths(5), Tenths(-7) >>
         ELSE IF RatioLeq(lbRatio, Tenths(10)) THEN << Tenths(7), Tenths(5), Tenths(-6) >>
         ELSE IF RatioLeq(lbRatio, Tenths(20)) THEN << Tenths(6), Tenths(5), Tenths(-5) >>
         ELSE << Tenths(5), Tenths(5), Tenths(-4) >>
    ELSE << Tenths(3), Tenths(-7) >>

CalculateRoofCpValues(roofType, roofL, roofB) == RoofCpValues(roofType, LbRatio(roofL, roofB))

\* A width in hundred-thousandths of a foot, or a subnormal
Fine(v) == [k |-> "fine", v |-> v]
FineSub(n) == IF n = 0 THEN Fine(0) ELSE [k |-> "sub", v |-> n]

\* x * 0.t for a finite positive x.  On a subnormal the product is rounded to
\* the nearest multiple of 2^-1074 (the doubles 0.1 and 0.2 exceed the
\* decimals, so a tie rounds up): 5e-324 * 0.2 is 0.
TimesTenths(x, t) ==
    IF x.k = "sub" THEN FineSub((2 * x.v * t + 10) \div 20) ELSE Fine(x.v * t)

FineLess(a, b) ==
    CASE a.k = b.k -> a.v < b.v
      [] a.k = "sub" -> b.v > 0
      [] b.k = "sub" -> a.v <= 0

FineMin(a, b) == IF FineLess(b, a) THEN b ELSE a

\* roofB - width for width <= roofB: a subnormal is lost against a Num
DimMinus(roofB, w) ==
    CASE roofB.k = "num" /\ w.k = "fine" -> Fine(roofB.v * 10 - w.v)
      [] roofB.k = "num" /\ w.k = "sub" -> Fine(roofB.v * 10)
      [] roofB.k = "sub" /\ w.k = "sub" -> FineSub(roofB.v - w.v)
      [] roofB.k = "sub" /\ w.k = "fine" -> FineSub(roofB.v)

FineToFixed(w, d) ==
    IF w.k = "sub" THEN [s |-> "num", v |-> 0, d |-> d]
    ELSE [s |-> "num", v |-> DecRound(DecOfInt(w.v, 5), d, "halfAway"), d |-> d]

\* A mutation of the edge width: Math.max for Math.min
Zone1WidthMax(roofL, roofB) ==
    IF FineLess(TimesTenths(roofB, 2), TimesTenths(roofL, 1))
    THEN TimesTenths(roofL, 1)
    ELSE TimesTenths(roofB, 2)

\* Math.min(roofB * 0.2, roofL * 0.1)
Zone1Width(roofL, roofB) == FineMin(TimesTenths(roofB, 2), TimesTenths(roofL, 1))

\* roofB - zone1Width
Zone2Width(roofL, roofB) == DimMinus(roofB, Zone1Width(roofL, roofB))

\* ((q * gustFactor * cp) - (qi * gcpi)).toFixed(2), for decimals q and qi
PressureText(q, gustFactor, cp, qi, gcpi) ==
    LET ext == DecMulInt(DecMulNum(q, gustFactor), cp.n, 0)
        int == DecMulInt(DecMulNum(qi, gcpi), cp.d, 0)
    IN  [s |-> "num", v |-> DecRoundDiv(DecSub(ext, int), cp.d, 2, "halfAway"), d |-> 2]

\* A mutation of the pair: the case of the negative Gcpi first
PressurePairNegativeFirst(label, q, gustFactor, cp, qi, gcpi) ==
    [label  |-> label,
     first  |-> PressureText(q, gustFactor, cp, qi, gcpi.negative),
     second |-> PressureText(q, gustFactor, cp, qi, gcpi.positive)]

\* One entry of a pressure list: the two texts of its value, in order
PressurePair(label, q, gustFactor, cp, qi, gcpi) ==
    [label  |-> label,
     first  |-> PressureText(q, gustFactor, cp, qi, gcpi.positive),
     second |-> PressureText(q, gustFactor, cp, qi, gcpi.negative)]

\* const q = qz * kd
RoofQ(qz, kd) == DecMulNum(DecOfNum(qz), kd)

\* The pressures list of calculateRoofPressures, from its local constants
\* (w1, w2: the texts of zone1Width and zone2Width in the labels)
RoofPressureList(roofType, q, cpValues, w1, w2, gustFactor, gcpi) ==
    IF roofType = "flat"
    THEN << PressurePair(<< "Roof Zone 1", w1 >>, q, gustFactor, cpValues[1], q, gcpi),
            PressurePair(<< "Roof Zone 2", w2 >>, q, gustFactor, cpValues[2], q, gcpi),
            PressurePair(<< "Roof Zone 3", w1 >>, q, gustFactor, cpValues[3], q, gcpi) >>
    ELSE << PressurePair(<< "Windward slope" >>, q, gustFactor, cpValues[1], q, gcpi),
            PressurePair(<< "Leeward slope" >>, q, gustFactor, cpValues[2], q, gcpi) >>

CalculateRoofPressures(roofType, qz, kd, gcpi, roofL, roofB, gustFactor) ==
    RoofPressureList(roofType, RoofQ(qz, kd), CalculateRoofCpValues(roofType, roofL, roofB),
                     FineToFixed(Zone1Width(roofL, roofB), 1),
                     FineToFixed(Zone2Width(roofL, roofB), 1), gustFactor, gcpi)

\* calculateKz: the form's own copy of getKz, shown as "Kz (calculated)"
CalculateKz(exposure, heightFt) ==
    LET z == ClampHeight(heightFt)
    IN  IF z.k # "num" THEN NaN
        ELSE RoundTo(DecOfInt(PowerLaw(z, GetZg(exposure), GetAlpha(exposure)), 6), 3)

CalculateGustEffectFactor(exposure, heightFt) == Num(8500)

\* A mutation of the lookup: the enclosed pair for every enclosure
GetGcpiValuesEnclosedOnly(buildingEnclosure) ==
    [positive |-> Num(1800), negative |-> Num(-1800)]

GetGcpiValues(buildingEnclosure) ==
    CASE buildingEnclosure = "enclosed" -> [positive |-> Num(1800), negative |-> Num(-1800)]
      [] buildingEnclosure = "partially_enclosed" -> [positive |-> Num(5500), negative |-> Num(-5500)]

\* useState<FormState>({...})
DefaultForm ==
    [windSpeedMph |-> "115", exposure |-> "B", numStories |-> "3", storyHeightFt |-> "10",
     directionalityFactor |-> "0.85", riskCategory |-> "II", roofType |-> "flat",
     buildingEnclosure |-> "enclosed", roofLength |-> "100", roofWidth |-> "50",
     wallEvaluationHeight |-> "15", useManualKz |-> FALSE, manualKz |-> ""]

\* A mutation of isValid: the manual Kz left unchecked
ValidNumbersButManualKz(v, n, sh, kd, roofL, roofB, wallHeight, useManualKz, manualKz, manualKzNumber) ==
    /\ IsFinite(v) /\ IsPositive(v) /\ LessThan(v, Whole(300))
    /\ IsInteger(n) /\ LessEq(Whole(1), n) /\ LessEq(n, Whole(200))
    /\ IsFinite(sh) /\ LessThan(Whole(4), sh) /\ LessEq(sh, Whole(20))
    /\ IsFinite(kd) /\ IsPositive(kd) /\ LessEq(kd, Whole(1))
    /\ IsFinite(roofL) /\ IsPositive(roofL) /\ LessEq(roofL, Whole(1000))
    /\ IsFinite(roofB) /\ IsPositive(roofB) /\ LessEq(roofB, Whole(1000))
    /\ IsFinite(wallHeight) /\ IsPositive(wallHeight) /\ LessEq(wallHeight, TimesWhole(n, sh))

\* The conjunction isValid returns, on its local constants
ValidNumbers(v, n, sh, kd, roofL, roofB, wallHeight, useManualKz, manualKz, manualKzNumber) ==
    /\ IsFinite(v) /\ IsPositive(v) /\ LessThan(v, Whole(300))
    /\ IsInteger(n) /\ LessEq(Whole(1), n) /\ LessEq(n, Whole(200))
    /\ IsFinite(sh) /\ LessThan(Whole(4), sh) /\ LessEq(sh, Whole(20))
    /\ IsFinite(kd) /\ IsPositive(kd) /\ LessEq(kd, Whole(1))
    /\ IsFinite(roofL) /\ IsPositive(roofL) /\ LessEq(roofL, Whole(1000))
    /\ IsFinite(roofB) /\ IsPositive(roofB) /\ LessEq(roofB, Whole(1000))
    /\ IsFinite(wallHeight) /\ IsPositive(wallHeight) /\ LessEq(wallHeight, TimesWhole(n, sh))
    /\ \/ ~useManualKz
       \/ /\ manualKz # ""
          /\ IsFinite(manualKzNumber)
          /\ LessThan(Num(3000), manualKzNumber)
          /\ LessThan(manualKzNumber, Whole(3))

IsValid(f) ==
    ValidNumbers(JsNumber(f.windSpeedMph), MathFloor(JsNumber(f.numStories)),
                 JsNumber(f.storyHeightFt), JsNumber(f.directionalityFactor),
                 JsNumber(f.roofLength), JsNumber(f.roofWidth),
                 JsNumber(f.wallEvaluationHeight), f.useManualKz, f.manualKz,
                 JsNumber(f.manualKz))

\* The WindInput of the per-story call for story i
StoryInput(f, i) ==
    WindInput(JsNumber(f.windSpeedMph), f.exposure, MidHeight(i, JsNumber(f.storyHeightFt)),
              JsNumber(f.directionalityFactor), Undef, f.riskCategory,
              IF f.useManualKz /\ f.manualKz # "" THEN JsNumber(f.manualKz) ELSE Undef, Undef)

\* A mutation of topResult: the call made at the wall evaluation height
TopInputAtWallHeight(f) ==
    WindInput(JsNumber(f.windSpeedMph), f.exposure, JsNumber(f.wallEvaluationHeight),
              JsNumber(f.directionalityFactor), Undef, f.riskCategory,
              IF f.useManualKz THEN JsNumber(f.manualKz) ELSE Undef, Undef)

\* The WindInput of topResult (heightFt = lastMidZ)
TopInput(f) ==
    WindInput(JsNumber(f.windSpeedMph), f.exposure,
              MidHeight(MathFloor(JsNumber(f.numStories)).v \div Unit, JsNumber(f.storyHeightFt)),
              JsNumber(f.directionalityFactor), Undef, f.riskCategory,
              IF f.useManualKz THEN JsNumber(f.manualKz) ELSE Undef, Undef)

\* The WindInput of wallResult (heightFt = wallEvaluationHeight)
WallInput(f) ==
    WindInput(JsNumber(f.windSpeedMph), f.exposure, JsNumber(f.wallEvaluationHeight),
              JsNumber(f.directionalityFactor), Undef, f.riskCategory,
              IF f.useManualKz THEN JsNumber(f.manualKz) ELSE Undef, Undef)

\* wallPressures: q at the wall evaluation height, qi = topResult's
WallPressureList(at, q, qi, gustFactor, wallCpValues, gcpi) ==
    << PressurePair(<< "Windward wall pressure", at >>, q, gustFactor,
                    wallCpValues.windward, qi, gcpi),
       PressurePair(<< "Leeward wall pressure", at >>, q, gustFactor,
                    wallCpValues.leeward, qi, gcpi),
       PressurePair(<< "Sidewall pressure", at >>, q, gustFactor,
                    wallCpValues.sidewall, qi, gcpi) >>

WallPressures(f, q, qi, gustFactor, gcpi) ==
    WallPressureList(f.wallEvaluationHeight, DecOfNum(q), DecOfNum(qi), gustFactor,
                     CalculateWallCpValues(JsNumber(f.roofLength), JsNumber(f.roofWidth)),
                     gcpi)

\* Math.floor(Number(form.numStories)) as a count
NumStories(f) == MathFloor(JsNumber(f.numStories)).v \div Unit

\* const totalHeight = n * sh
TotalHeight(f) == TimesWhole(MathFloor(JsNumber(f.numStories)), JsNumber(f.storyHeightFt))

NoResults ==
    [isValid |-> FALSE, calls |-> << >>, perStoryPressuresPsf |-> << >>,
     topQz |-> Undef, wallQz |-> Undef, storyPressures |-> << >>,
     wallPressures |-> << >>, roofPressuresGrouped |-> << >>]

\* What the results useMemo returns, from its local constants
Results(f, perStory, topQz, wallQz, gcpi, gustFactor) ==
    [isValid |-> TRUE,
     calls |-> [i \in 1..NumStories(f) |-> StoryInput(f, i)] \o << TopInput(f), WallInput(f) >>,
     perStoryPressuresPsf |-> perStory,
     topQz |-> topQz,
     wallQz |-> wallQz,
     storyPressures |->
         [i \in 1..Len(perStory) |-> [label |-> << "Story", i, "qz (psf)" >>, value |-> perStory[i]]],
     wallPressures |-> WallPressures(f, wallQz, topQz, gustFactor, gcpi),
     roofPressuresGrouped |->
         CalculateRoofPressures(f.roofType, topQz, JsNumber(f.directionalityFactor), gcpi,
                                JsNumber(f.roofLength), JsNumber(f.roofWidth), gustFactor)]

\* The two useMemo blocks of a render: isValid, then the results
Render(f) ==
    IF ~IsValid(f) THEN NoResults
    ELSE Results(f,
                 [i \in 1..NumStories(f) |->
                     CalculateVelocityPressure(StoryInput(f, i)).velocityPressurePsf],
                 CalculateVelocityPressure(TopInput(f)).velocityPressurePsf,
                 CalculateVelocityPressure(WallInput(f)).velocityPressurePsf,
                 GetGcpiValues(f.buildingEnclosure),
                 CalculateGustEffectFactor(f.exposure, TotalHeight(f)))

----------------------------------------------------------------------------
(* The coefficient lookups as pure functions of the plan, the roof type and *)
(* the enclosure: what a call of each returns for given arguments.          *)

\* The returns of calculateWallCpValues, calculateRoofCpValues, getGcpiValues
\* and getGcpiEnclosed for a plan roofL x roofB
Coefficients(roofL, roofB, roofType, buildingEnclosure) ==
    [roofL |-> roofL, roofB |-> roofB, roofType |-> roofType,
     buildingEnclosure |-> buildingEnclosure,
     wallCp |-> CalculateWallCpValues(roofL, roofB),
     roofCp |-> CalculateRoofCpValues(roofType, roofL, roofB),
     gcpi |-> GetGcpiValues(buildingEnclosure),
     gcpiEnclosed |-> GetGcpiEnclosed]

\* The coefficients of the form's default plan
DefaultCoefficients == Coefficients(Whole(100), Whole(50), "flat", "enclosed")

----------------------------------------------------------------------------
(* src/unnamed/part_000, lines 1-300: RoofDiagram *)

\* RoofDiagramProps
DiagramProps(roofType, windSpeedMph, exposure, heightFt, velocityPressurePsf, roofLength, roofWidth) ==
    [roofType |-> roofType, windSpeedMph |-> windSpeedMph, exposure |-> exposure,
     heightFt |-> heightFt, velocityPressurePsf |-> velocityPressurePsf,
     roofLength |-> roofLength, roofWidth |-> roofWidth]

\* The props WindForm passes for its default form
DefaultProps ==
    DiagramProps("flat", Whole(115), "B", Whole(30), Num(225140), Whole(100), Whole(50))

\* The dependency list of the render effect
EffectDeps(p) ==
    << p.roofType, p.windSpeedMph, p.exposure, p.heightFt, p.velocityPressurePsf >>

\* The names bound where the body of handleRenderImage runs: the props, the
\* component's hooks, the function's own constants, and the globals it uses
DeclaredNames ==
    {"roofType", "windSpeedMph", "exposure", "heightFt", "velocityPressurePsf",
     "roofLength", "roofWidth", "ref", "dataUrl", "setDataUrl",
     "container", "width", "padding", "lineGap", "titleFont", "bodyFont",
     "diagramWidth", "diagramHeight", "buildingHeight", "totalHeight", "height",
     "canvas", "ctx", "startX", "startY", "scale", "scaledL", "scaledB",
     "roofStartX", "roofStartY", "Math", "document"}

\* The statements of handleRenderImage after the canvas context is obtained,
\* in order of execution for a roof type, each with the outer names it reads
RenderBlocks(roofType) ==
    << [name |-> "frame",
        reads |-> {"ctx", "width", "height", "titleFont", "roofType", "roofLength",
                   "roofWidth", "padding", "diagramWidth", "diagramHeight",
                   "buildingHeight", "Math"}] >>
    \o (IF roofType = "flat"
        THEN << [name |-> "flatRoof",
                 reads |-> {"ctx", "roofStartX", "roofStartY", "scaledL", "scaledB",
                            "scale", "bodyFont", "Math"}],
                [name |-> "flatArrows",
                 reads |-> {"ctx", "roofHeight", "startX", "startY", "roofWidth"}] >>
        ELSE << [name |-> "slopedRoof",
                 reads |-> {"ctx", "startX", "startY", "roofWidth", "roofHeight",
                            "bodyFont", "Math"}],
                [name |-> "slopedArrows",
                 reads |-> {"ctx", "startX", "startY", "roofWidth", "roofHeight"}] >>)
    \o << [name |-> "pressureValue",
           reads |-> {"ctx", "bodyFont", "velocityPressurePsf", "startX", "startY",
                      "roofHeight", "buildingHeight"}],
          [name |-> "setDataUrl", reads |-> {"canvas", "setDataUrl"}] >>

\* The first statement that reads a name with no binding (a ReferenceError is
\* thrown there), or 0 when every statement runs
FirstUnbound(blocks, declared) ==
    IF \E i \in 1..Len(blocks) : ~(blocks[i].reads \subseteq declared)
    THEN CHOOSE i \in 1..Len(blocks) :
             /\ ~(blocks[i].reads \subseteq declared)
             /\ \A j \in 1..(i - 1) : blocks[j].reads \subseteq declared
    ELSE 0

\* useState<string | null>(null): no image to show
NoImage == [shown |-> FALSE]

\* canvas.toDataURL("image/png"): the picture, held as what was drawn into it
Png(p) ==
    [shown |-> TRUE, roofType |-> p.roofType, roofLength |-> p.roofLength, roofWidth |-> p.roofWidth,
     pressureText |-> ToFixed(p.velocityPressurePsf, 2)]

\* One run of handleRenderImage with the props p of its closure: it returns
\* early without a container or a 2D context, is rejected where a statement
\* throws, and otherwise calls setDataUrl(png)
RenderOutcome(p, stop) ==
    IF stop = 0
    THEN [outcome |-> "resolved", at |-> "setDataUrl", dataUrl |-> Png(p)]
    ELSE [outcome |-> "rejected", at |-> RenderBlocks(p.roofType)[stop].name,
          dataUrl |-> NoImage]

HandleRenderImage(p, hasContainer, hasContext) ==
    IF ~hasContainer THEN [outcome |-> "returned", at |-> "ref", dataUrl |-> NoImage]
    ELSE IF ~hasContext THEN [outcome |-> "returned", at |-> "getContext", dataUrl |-> NoImage]
    ELSE RenderOutcome(p, FirstUnbound(RenderBlocks(p.roofType), DeclaredNames))

NoFrame == [pending |-> FALSE]

\* requestAnimationFrame(() => { void handleRenderImage() }) of the render
\* whose props are p
RequestedFrame(p) == [pending |-> TRUE, props |-> p]

\* RoofDiagram after it is mounted with props p: the first render shows no
\* image, and its effect has requested a frame
MountedDiagram(p, context2d) ==
    [mounted |-> TRUE, props |-> p, frame |-> RequestedFrame(p), dataUrl |-> NoImage,
     settled |-> "none", at |-> "none", context2d |-> context2d]

DefaultDiagram == MountedDiagram(DefaultProps, TRUE)

----------------------------------------------------------------------------
(* WindForm as a state machine: one action per onChange handler.  Every     *)
(* handler is setForm({ ...form, field: value }); the render that follows   *)
(* recomputes isValid and the results from the new form.                    *)

\* The texts typed into the number inputs
WindSpeedTexts == {"115", "90", "300", ""}
NumStoriesTexts == {"3", "1", "2.5", "0"}
StoryHeightTexts == {"10", "20", "4"}
DirectionalityTexts == {"0.85", "1", "0.5", "0"}
RoofLengthTexts == {"100", "75", "150", "1000", "25", "1e999"}
RoofWidthTexts == {"50", "100", "5e-324", "0"}
WallHeightTexts == {"15", "30", "5", "31", ""}
ManualKzTexts == {"", "0.575", "1.2", "3"}

\* The number of fields that differ from their initial value
ChangedFields(f) == Cardinality({k \in DOMAIN f : f[k] # DefaultForm[k]})

MaxChangedFields == 2

\* f is a new form within the bound
CanSet(f) == f # form /\ ChangedFields(f) <= MaxChangedFields

SetWindSpeedMph ==
    \E t \in WindSpeedTexts :
        LET f == [form EXCEPT !.windSpeedMph = t]
        IN  /\ CanSet(f)
            /\ form' = f
            /\ out' = Render(f)
            /\ UNCHANGED << input, locals, result, coef, diagram >>

SetExposure ==
    \E e \in ExposureCategory :
        LET f == [form EXCEPT !.exposure = e]
        IN  /\ CanSet(f)
            /\ form' = f
            /\ out' = Render(f)
            /\ UNCHANGED << input, locals, result, coef, diagram >>

SetNumStories ==
    \E t \in NumStoriesTexts :
        LET f == [form EXCEPT !.numStories = t]
        IN  /\ CanSet(f)
            /\ form' = f
            /\ out' = Render(f)
            /\ UNCHANGED << input, locals, result, coef, diagram >>

SetStoryHeightFt ==
    \E t \in StoryHeightTexts :
        LET f == [form EXCEPT !.storyHeightFt = t]
        IN  /\ CanSet(f)
            /\ form' = f
            /\ out' = Render(f)
            /\ UNCHANGED << input, locals, result, coef, diagram >>

SetDirectionalityFactor ==
    \E t \in DirectionalityTexts :
        LET f == [form EXCEPT !.directionalityFactor = t]
        IN  /\ CanSet(f)
            /\ form' = f
            /\ out' = Render(f)
            /\ UNCHANGED << input, locals, result, coef, diagram >>

SetRiskCategory ==
    \E r \in RiskCategory :
        LET f == [form EXCEPT !.riskCategory = r]
        IN  /\ CanSet(f)
            /\ form' = f
            /\ out' = Render(f)
            /\ UNCHANGED << input, locals, result, coef, diagram >>

SetRoofType ==
    \E r \in RoofType :
        LET f == [form EXCEPT !.roofType = r]
        IN  /\ CanSet(f)
            /\ form' = f
            /\ out' = Render(f)
            /\ UNCHANGED << input, locals, result, coef, diagram >>

SetBuildingEnclosure ==
    \E b \in BuildingEnclosure :
        LET f == [form EXCEPT !.buildingEnclosure = b]
        IN  /\ CanSet(f)
            /\ form' = f
            /\ out' = Render(f)
            /\ UNCHANGED << input, locals, result, coef, diagram >>

SetRoofLength ==
    \E t \in RoofLengthTexts :
        LET f == [form EXCEPT !.roofLength = t]
        IN  /\ CanSet(f)
            /\ form' = f
            /\ out' = Render(f)
            /\ UNCHANGED << input, locals, result, coef, diagram >>

SetRoofWidth ==
    \E t \in RoofWidthTexts :
        LET f == [form EXCEPT !.roofWidth = t]
        IN  /\ CanSet(f)
            /\ form' = f
            /\ out' = Render(f)
            /\ UNCHANGED << input, locals, result, coef, diagram >>

SetWallEvaluationHeight ==
    \E t \in WallHeightTexts :
        LET f == [form EXCEPT !.wallEvaluationHeight = t]
        IN  /\ CanSet(f)
            /\ form' = f
            /\ out' = Render(f)
            /\ UNCHANGED << input, locals, result, coef, diagram >>

SetUseManualKz ==
    \E b \in BOOLEAN :
        LET f == [form EXCEPT !.useManualKz = b]
        IN  /\ CanSet(f)
            /\ form' = f
            /\ out' = Render(f)
            /\ UNCHANGED << input, locals, result, coef, diagram >>

SetManualKz ==
    \E t \in ManualKzTexts :
        LET f == [form EXCEPT !.manualKz = t]
        IN  /\ CanSet(f)
            /\ form' = f
            /\ out' = Render(f)
            /\ UNCHANGED << input, locals, result, coef, diagram >>

\* The plainest call: only the required fields
PlainInput == WindInput(Whole(115), "B", Whole(15), Undef, Undef, "undefined", Undef, Undef)

Init ==
    /\ form = DefaultForm
    /\ out = Render(DefaultForm)
    /\ coef = DefaultCoefficients
    /\ diagram = DefaultDiagram
    /\ input = PlainInput
    /\ locals = Locals(PlainInput)
    /\ result = CalculateVelocityPressure(PlainInput)

Next ==
    \/ SetWindSpeedMph
    \/ SetExposure
    \/ SetNumStories
    \/ SetStoryHeightFt
    \/ SetDirectionalityFactor
    \/ SetRiskCategory
    \/ SetRoofType
    \/ SetBuildingEnclosure
    \/ SetRoofLength
    \/ SetRoofWidth
    \/ SetWallEvaluationHeight
    \/ SetUseManualKz
    \/ SetManualKz

Spec == Init /\ [][Next]_vars

----------------------------------------------------------------------------
(* Direct calls of calculateVelocityPressure: the input is drawn from       *)
(* bounded sets and each action is the call with one field changed.         *)

WindSpeeds == {Whole(115), Whole(90)}
Heights == {NegInf, Whole(-10), Whole(14), Whole(15), Whole(16), Whole(100),
            Whole(500), Whole(501), PosInf}
DirectionalityFactors == {Undef, Num(9000)}
TopographicFactors == {Undef, Num(12500)}
RiskCategories == RiskCategory \cup {"undefined", "V"}
OverrideKzs == {Undef, NaN, PosInf, NegInf, Num(5750), Whole(1)}
KhFactors == {Undef, Num(9000)}

\* The number of fields in which a call differs from the plainest one
ChangedInputs(in) == Cardinality({k \in DOMAIN in : in[k] # PlainInput[k]})

MaxChangedInputs == 4

\* in is a new input within the bound
CanCall(in) == in # input /\ ChangedInputs(in) <= MaxChangedInputs

InitEngine ==
    /\ form = DefaultForm
    /\ out = Render(DefaultForm)
    /\ coef = DefaultCoefficients
    /\ diagram = DefaultDiagram
    /\ input \in {WindInput(v, e, h, Undef, Undef, "undefined", Undef, Undef) :
                    v \in WindSpeeds, e \in ExposureCategory, h \in {Whole(15), Whole(100)}}
    /\ locals = Locals(input)
    /\ result = CalculateVelocityPressure(input)

CallWithWindSpeed ==
    \E v \in WindSpeeds :
        LET in == [input EXCEPT !.windSpeedMph = v]
        IN  /\ CanCall(in)
            /\ input' = in
            /\ locals' = Locals(in)
            /\ result' = CalculateVelocityPressure(in)
            /\ UNCHANGED << form, out, coef, diagram >>

CallWithExposure ==
    \E e \in ExposureCategory :
        LET in == [input EXCEPT !.exposure = e]
        IN  /\ CanCall(in)
            /\ input' = in
            /\ locals' = Locals(in)
            /\ result' = CalculateVelocityPressure(in)
            /\ UNCHANGED << form, out, coef, diagram >>

CallWithHeight ==
    \E h \in Heights :
        LET in == [input EXCEPT !.heightFt = h]
        IN  /\ CanCall(in)
            /\ input' = in
            /\ locals' = Locals(in)
            /\ result' = CalculateVelocityPressure(in)
            /\ UNCHANGED << form, out, coef, diagram >>

CallWithDirectionality ==
    \E k \in DirectionalityFactors :
        LET in == [input EXCEPT !.directionalityFactor = k]
        IN  /\ CanCall(in)
            /\ input' = in
            /\ locals' = Locals(in)
            /\ result' = CalculateVelocityPressure(in)
            /\ UNCHANGED << form, out, coef, diagram >>

CallWithTopographic ==
    \E k \in TopographicFactors :
        LET in == [input EXCEPT !.topographicFactor = k]
        IN  /\ CanCall(in)
            /\ input' = in
            /\ locals' = Locals(in)
            /\ result' = CalculateVelocityPressure(in)
            /\ UNCHANGED << form, out, coef, diagram >>

CallWithRiskCategory ==
    \E r \in RiskCategories :
        LET in == [input EXCEPT !.riskCategory = r]
        IN  /\ CanCall(in)
            /\ input' = in
            /\ locals' = Locals(in)
            /\ result' = CalculateVelocityPressure(in)
            /\ UNCHANGED << form, out, coef, diagram >>

CallWithOverrideKz ==
    \E k \in OverrideKzs :
        LET in == [input EXCEPT !.overrideKz = k]
        IN  /\ CanCall(in)
            /\ input' = in
            /\ locals' = Locals(in)
            /\ result' = CalculateVelocityPressure(in)
            /\ UNCHANGED << form, out, coef, diagram >>

CallWithKh ==
    \E k \in KhFactors :
        LET in == [input EXCEPT !.khFactor = k]
        IN  /\ CanCall(in)
            /\ input' = in
            /\ locals' = Locals(in)
            /\ result' = CalculateVelocityPressure(in)
            /\ UNCHANGED << form, out, coef, diagram >>

NextEngine ==
    \/ CallWithWindSpeed
    \/ CallWithExposure
    \/ CallWithHeight
    \/ CallWithDirectionality
    \/ CallWithTopographic
    \/ CallWithRiskCategory
    \/ CallWithOverrideKz
    \/ CallWithKh

SpecEngine == InitEngine /\ [][NextEngine]_vars

----------------------------------------------------------------------------
(* Calls of calculateVelocityPressure at every whole foot of height: each   *)
(* action is the call with heightFt moved by a few feet, or with another    *)
(* exposure.                                                                *)

LowestFt == 10
HighestFt == 505
MaxHeightStep == 3

InitKz ==
    /\ form = DefaultForm
    /\ out = Render(DefaultForm)
    /\ coef = DefaultCoefficients
    /\ diagram = DefaultDiagram
    /\ input \in {WindInput(Whole(115), e, Whole(15), Undef, Undef, "undefined", Undef, Undef) :
                    e \in ExposureCategory}
    /\ locals = Locals(input)
    /\ result = CalculateVelocityPressure(input)

RaiseHeight ==
    \E d \in 1..MaxHeightStep :
        LET in == [input EXCEPT !.heightFt = Num(input.heightFt.v + d * Unit)]
        IN  /\ in.heightFt.v <= HighestFt * Unit
            /\ input' = in
            /\ locals' = Locals(in)
            /\ result' = CalculateVelocityPressure(in)
            /\ UNCHANGED << form, out, coef, diagram >>

LowerHeight ==
    \E d \in 1..MaxHeightStep :
        LET in == [input EXCEPT !.heightFt = Num(input.heightFt.v - d * Unit)]
        IN  /\ in.heightFt.v >= LowestFt * Unit
            /\ input' = in
            /\ locals' = Locals(in)
            /\ result' = CalculateVelocityPressure(in)
            /\ UNCHANGED << form, out, coef, diagram >>

SwitchExposure ==
    \E e \in ExposureCategory :
        LET in == [input EXCEPT !.exposure = e]
        IN  /\ in # input
            /\ input' = in
            /\ locals' = Locals(in)
            /\ result' = CalculateVelocityPressure(in)
            /\ UNCHANGED << form, out, coef, diagram >>

NextKz ==
    \/ RaiseHeight
    \/ LowerHeight
    \/ SwitchExposure

SpecKz == InitKz /\ [][NextKz]_vars

----------------------------------------------------------------------------
(* Calls of the coefficient lookups: the plan, the roof type and the        *)
(* enclosure are drawn from bounded sets and each action is the lookups     *)
(* with one argument changed.                                               *)

MaxDimension == 8

\* Plan dimensions: every whole foot up to MaxDimension, the form's default
\* 50 and 100, and the smallest positive double
Dimensions == {Whole(n) : n \in 1..MaxDimension} \cup {Whole(50), Whole(100), Sub(1)}

InitCoefficients ==
    /\ form = DefaultForm
    /\ out = Render(DefaultForm)
    /\ input = PlainInput
    /\ locals = Locals(PlainInput)
    /\ result = CalculateVelocityPressure(PlainInput)
    /\ coef = DefaultCoefficients
    /\ diagram = DefaultDiagram

LookupWithRoofLength ==
    \E roofL \in Dimensions :
        /\ coef' = Coefficients(roofL, coef.roofB, coef.roofType, coef.buildingEnclosure)
        /\ UNCHANGED << form, out, input, locals, result, diagram >>

LookupWithRoofWidth ==
    \E roofB \in Dimensions :
        /\ coef' = Coefficients(coef.roofL, roofB, coef.roofType, coef.buildingEnclosure)
        /\ UNCHANGED << form, out, input, locals, result, diagram >>

LookupWithRoofType ==
    \E roofType \in RoofType :
        /\ coef' = Coefficients(coef.roofL, coef.roofB, roofType, coef.buildingEnclosure)
        /\ UNCHANGED << form, out, input, locals, result, diagram >>

LookupWithEnclosure ==
    \E buildingEnclosure \in BuildingEnclosure :
        /\ coef' = Coefficients(coef.roofL, coef.roofB, coef.roofType, buildingEnclosure)
        /\ UNCHANGED << form, out, input, locals, result, diagram >>

NextCoefficients ==
    \/ LookupWithRoofLength
    \/ LookupWithRoofWidth
    \/ LookupWithRoofType
    \/ LookupWithEnclosure

SpecCoefficients == InitCoefficients /\ [][NextCoefficients]_vars

----------------------------------------------------------------------------
(* RoofDiagram as WindForm mounts and re-renders it: the props are drawn    *)
(* from bounded sets, and the browser runs the requested animation frame.   *)

\* The props RoofDiagram is rendered with
PropsChoices ==
    {DiagramProps(roofType, v, exposure, heightFt, qz, roofL, roofB) :
        roofType \in RoofType, v \in {Whole(115), Whole(90)}, exposure \in {"B", "C"},
        heightFt \in {Whole(30), Whole(20)},
        qz \in {Num(225140), Num(194670), Num(0)},
        roofL \in {Whole(100), Whole(150)}, roofB \in {Whole(50), Whole(100)}}

\* The number of props in which p and q differ
ChangedProps(p, q) == Cardinality({name \in DOMAIN p : p[name] # q[name]})

InitDiagram ==
    /\ form = DefaultForm
    /\ out = Render(DefaultForm)
    /\ input = PlainInput
    /\ locals = Locals(PlainInput)
    /\ result = CalculateVelocityPressure(PlainInput)
    /\ coef = DefaultCoefficients
    /\ diagram \in {MountedDiagram(DefaultProps, context2d) : context2d \in BOOLEAN}

\* WindForm renders RoofDiagram with one prop changed.  When a dependency of
\* the effect changed, its cleanup cancels the requested frame and the effect
\* requests one for the new render; otherwise a requested frame stays, with
\* the closure of the render that requested it.
Rerender ==
    \E p \in PropsChoices :
        /\ diagram.mounted
        /\ ChangedProps(p, diagram.props) = 1
        /\ diagram' = [diagram EXCEPT
                          !.props = p,
                          !.frame = IF EffectDeps(p) # EffectDeps(diagram.props)
                                    THEN RequestedFrame(p) ELSE @]
        /\ UNCHANGED << form, out, input, locals, result, coef >>

\* The browser runs the requested frame: handleRenderImage runs with the
\* props of its closure, and setDataUrl(png) re-renders with the same props
AnimationFrame ==
    /\ diagram.mounted
    /\ diagram.frame.pending
    /\ diagram' = [diagram EXCEPT
                      !.frame = NoFrame,
                      !.settled = HandleRenderImage(diagram.frame.props, diagram.mounted,
                                                    diagram.context2d).outcome,
                      !.at = HandleRenderImage(diagram.frame.props, diagram.mounted,
                                               diagram.context2d).at,
                      !.dataUrl =
                          IF HandleRenderImage(diagram.frame.props, diagram.mounted,
                                               diagram.context2d).outcome = "resolved"
                          THEN HandleRenderImage(diagram.frame.props, diagram.mounted,
                                                 diagram.context2d).dataUrl
                          ELSE @]
    /\ UNCHANGED << form, out, input, locals, result, coef >>

\* The form becomes invalid: RoofDiagram is unmounted, the effect's cleanup
\* cancels the requested frame and the component's state is dropped
Unmount ==
    /\ diagram.mounted
    /\ diagram' = [diagram EXCEPT !.mounted = FALSE, !.frame = NoFrame,
                                  !.dataUrl = NoImage, !.settled = "none", !.at = "none"]
    /\ UNCHANGED << form, out, input, locals, result, coef >>

\* The form becomes valid again: RoofDiagram is mounted anew
Mount ==
    \E p \in PropsChoices :
        /\ ~diagram.mounted
        /\ diagram' = MountedDiagram(p, diagram.context2d)
        /\ UNCHANGED << form, out, input, locals, result, coef >>

NextDiagram ==
    \/ Rerender
    \/ AnimationFrame
    \/ Unmount
    \/ Mount

\* A requested animation frame that is not cancelled is run by the browser
SpecDiagram == InitDiagram /\ [][NextDiagram]_vars /\ WF_vars(AnimationFrame)

----------------------------------------------------------------------------
(* Properties *)

HasOverrideNote(r) ==
    \E i \in 1..Len(r.pressureNotes) : r.pressureNotes[i].kind = "override"

\* The Kz shown by the factor-summary note
ReportedKz(r) == r.pressureNotes[1].kz

\* C1: for every WindInput, a finite overrideKz puts the override-used note
\* in pressureNotes and the factor-summary note reports the override as Kz;
\* an absent or non-finite overrideKz leaves no override-used note.  This
\* includes a finite override equal to the computed Kz.
C1_OverrideNoteForEveryFiniteOverride ==
    /\ IsFinite(input.overrideKz) =>
           /\ HasOverrideNote(result)
           /\ ReportedKz(result) = ToFixed(input.overrideKz, 3)
    /\ ~IsFinite(input.overrideKz) => ~HasOverrideNote(result)

\* The velocity pressure of topResult's call made at the roof height n * sh
RoofHeightQz(f) ==
    CalculateVelocityPressure([TopInput(f) EXCEPT !.heightFt = TotalHeight(f)]).velocityPressurePsf

\* C2: in every wall pressure the internal-pressure term, and in every roof
\* pressure both terms, use the velocity pressure at the roof height
\* numStories * storyHeightFt; only the wall external term uses the velocity
\* pressure at the wall evaluation height.
C2_InternalPressureAtRoofHeight ==
    out.isValid =>
        /\ out.wallPressures =
               WallPressures(form, out.wallQz, RoofHeightQz(form),
                             CalculateGustEffectFactor(form.exposure, TotalHeight(form)),
                             GetGcpiValues(form.buildingEnclosure))
        /\ out.roofPressuresGrouped =
               CalculateRoofPressures(form.roofType, RoofHeightQz(form),
                                      JsNumber(form.directionalityFactor),
                                      GetGcpiValues(form.buildingEnclosure),
                                      JsNumber(form.roofLength), JsNumber(form.roofWidth),
                                      CalculateGustEffectFactor(form.exposure, TotalHeight(form)))

\* A velocity pressure multiplied by Kd
TimesKd(qz, kd) == DecMulNum(DecOfNum(qz), kd)

\* C3: Kd is applied to every surface: each wall pressure and each roof
\* pressure is composed from velocity pressures multiplied by Kd.
C3_KdAppliedToEverySurface ==
    out.isValid =>
        /\ out.wallPressures =
               WallPressureList(form.wallEvaluationHeight,
                                TimesKd(out.wallQz, JsNumber(form.directionalityFactor)),
                                TimesKd(out.topQz, JsNumber(form.directionalityFactor)),
                                CalculateGustEffectFactor(form.exposure, TotalHeight(form)),
                                CalculateWallCpValues(JsNumber(form.roofLength),
                                                      JsNumber(form.roofWidth)),
                                GetGcpiValues(form.buildingEnclosure))
        /\ out.roofPressuresGrouped =
               RoofPressureList(form.roofType,
                                TimesKd(out.topQz, JsNumber(form.directionalityFactor)),
                                CalculateRoofCpValues(form.roofType, JsNumber(form.roofLength),
                                                      JsNumber(form.roofWidth)),
                                FineToFixed(Zone1Width(JsNumber(form.roofLength),
                                                       JsNumber(form.roofWidth)), 1),
                                FineToFixed(Zone2Width(JsNumber(form.roofLength),
                                                       JsNumber(form.roofWidth)), 1),
                                CalculateGustEffectFactor(form.exposure, TotalHeight(form)),
                                GetGcpiValues(form.buildingEnclosure))

\* Every pressure pair of the last render
RenderedPairs == out.wallPressures \o out.roofPressuresGrouped

\* C4 (as stated): in every rendered wall and roof pressure pair the first
\* number is the larger and the second the smaller (first >= second).
C4_PairOrderedMaxMin ==
    out.isValid => \A i \in 1..Len(RenderedPairs) :
                       RenderedPairs[i].first.v >= RenderedPairs[i].second.v

\* C4 (amended): in every rendered wall and roof pressure pair the first
\* number is the case of the positive Gcpi and the second the case of the
\* negative Gcpi, so the first is the smaller: first <= second.
C4_PairOrderedPositiveGcpiFirst ==
    out.isValid => \A i \in 1..Len(RenderedPairs) :
                       /\ RenderedPairs[i].first.s = "num"
                       /\ RenderedPairs[i].second.s = "num"
                       /\ RenderedPairs[i].first.v <= RenderedPairs[i].second.v

C4_Witness ==
    /\ out.isValid
    /\ form.roofType = "sloped"
    /\ Len(RenderedPairs) = 5
    /\ \A i \in 1..Len(RenderedPairs) : RenderedPairs[i].first.v < RenderedPairs[i].second.v

\* w1 + w2 + w3 = roofB, in hundred-thousandths of a foot or in subnormals
WidthsSumTo(w1, w2, w3, roofB) ==
    CASE w1.k = "fine" /\ w2.k = "fine" /\ w3.k = "fine" /\ roofB.k = "num" ->
             w1.v + w2.v + w3.v = roofB.v * 10
      [] w1 = Fine(0) /\ w3 = Fine(0) /\ w2.k = "sub" /\ roofB.k = "sub" -> w2.v = roofB.v
      [] OTHER -> FALSE

\* C5: for a flat roof of an accepted plan, the three zone widths of
\* calculateRoofPressures (zone1Width, zone2Width, and zone1Width again for
\* zone 3) add up to the width B.
C5_ZoneWidthsPartitionB ==
    out.isValid /\ form.roofType = "flat" =>
        WidthsSumTo(Zone1Width(JsNumber(form.roofLength), JsNumber(form.roofWidth)),
                    Zone2Width(JsNumber(form.roofLength), JsNumber(form.roofWidth)),
                    Zone1Width(JsNumber(form.roofLength), JsNumber(form.roofWidth)),
                    JsNumber(form.roofWidth))

\* The label of roof zone 1 shows this width
Zone1Label(text) == out.roofPressuresGrouped[1].label = << "Roof Zone 1", text >>

\* C6: among the accepted plans there are some, with L very large relative
\* to B, whose zone1Width is zero or negative.  Checked as: for every accepted
\* flat-roof plan zone1Width is what the label of zone 1 shows, it is never
\* negative, it is positive when 0.2 * B and 0.1 * L are ordinary numbers,
\* and it is zero when B is the smallest positive double (there B * 0.2
\* underflows to 0); the witness is such an accepted plan.
C6_ZeroEdgeZoneAccepted ==
    out.isValid /\ form.roofType = "flat" =>
        /\ Zone1Label(FineToFixed(Zone1Width(JsNumber(form.roofLength),
                                              JsNumber(form.roofWidth)), 1))
        /\ ~FineLess(Zone1Width(JsNumber(form.roofLength), JsNumber(form.roofWidth)), Fine(0))
        /\ JsNumber(form.roofLength).k = "num" /\ JsNumber(form.roofWidth).k = "num" =>
               FineLess(Fine(0), Zone1Width(JsNumber(form.roofLength), JsNumber(form.roofWidth)))
        /\ JsNumber(form.roofWidth) = Sub(1) =>
               Zone1Width(JsNumber(form.roofLength), JsNumber(form.roofWidth)) = Fine(0)

C6_Witness ==
    /\ out.isValid
    /\ form.roofType = "flat"
    /\ form.roofLength = "1000"
    /\ form.roofWidth = "5e-324"
    /\ Zone1Width(JsNumber(form.roofLength), JsNumber(form.roofWidth)) = Fine(0)
    /\ Zone1Label([s |-> "num", v |-> 0, d |-> 1])

\* The velocity pressure of the last call made at another height
QzAtHeight(heightFt) ==
    CalculateVelocityPressure([input EXCEPT !.heightFt = heightFt]).velocityPressurePsf

\* C7: getKz(exposure, h) is getKz(exposure, 15) for h <= 15 and
\* getKz(exposure, 500) for h >= 500; hence calculateVelocityPressure returns
\* the velocity pressure of 15 ft for every h <= 15 and that of 500 ft for
\* every h >= 500 (other fields equal), and it returns a number, not an error.
C7_HeightClamp ==
    /\ LessEq(input.heightFt, Whole(15)) =>
           /\ locals.computedKz = GetKz(input.exposure, Whole(15))
           /\ result.velocityPressurePsf = QzAtHeight(Whole(15))
    /\ LessEq(Whole(500), input.heightFt) =>
           /\ locals.computedKz = GetKz(input.exposure, Whole(500))
           /\ result.velocityPressurePsf = QzAtHeight(Whole(500))
    /\ locals.computedKz.k = "num"
    /\ result.velocityPressurePsf.k = "num"

C7_Witness ==
    /\ input.heightFt = Whole(-10)
    /\ input.exposure = "C"
    /\ input.overrideKz = Undef
    /\ locals.computedKz = Num(8490)
    /\ result.velocityPressurePsf.k = "num"

\* C8: for every exposure and heights h1 <= h2 within [15, 500],
\* getKz(exposure, h1) <= getKz(exposure, h2).  Checked on every step that
\* moves the height inside [15, 500] with the exposure kept.
C8_KzMonotone ==
    [][(/\ input'.exposure = input.exposure
        /\ LessEq(Whole(15), input.heightFt) /\ LessEq(input.heightFt, Whole(500))
        /\ LessEq(Whole(15), input'.heightFt) /\ LessEq(input'.heightFt, Whole(500)))
       => /\ LessEq(input.heightFt, input'.heightFt) =>
                 LessEq(locals.computedKz, locals'.computedKz)
          /\ LessEq(input'.heightFt, input.heightFt) =>
                 LessEq(locals'.computedKz, locals.computedKz)]_vars

C8_Witness ==
    /\ input.exposure = "C"
    /\ input.heightFt = Whole(110)
    /\ locals.computedKz = Num(12910)

\* C9: a finite overrideKz is the effective Kz; with overrideKz undefined,
\* NaN or +/-Infinity the effective Kz is getKz(exposure, heightFt), the call
\* returns a number, and velocityPressurePsf is that of the same call without
\* an override.
C9_EffectiveKz ==
    /\ IsFinite(input.overrideKz) =>
           /\ locals.kz = input.overrideKz
           /\ ReportedKz(result) = ToFixed(input.overrideKz, 3)
    /\ ~IsFinite(input.overrideKz) =>
           /\ locals.kz = GetKz(input.exposure, input.heightFt)
           /\ result.velocityPressurePsf.k = "num"
           /\ result.velocityPressurePsf =
                  CalculateVelocityPressure([input EXCEPT !.overrideKz = Undef]).velocityPressurePsf

C9_Witness ==
    /\ input.overrideKz = NaN
    /\ input.exposure = "D"
    /\ locals.kz = locals.computedKz
    /\ result.velocityPressurePsf.k = "num"

\* The importance factor the table gives, in ten-thousandths
ImportanceTable(riskCategory) ==
    CASE riskCategory = "I" -> 8700
      [] riskCategory \in {"III", "IV"} -> 11500
      [] OTHER -> 10000

\* C10: velocityPressurePsf is 0.00256 * Kz_effective * Kzt * Kh * V^2 * I
\* rounded to 3 decimals, Kzt and Kh being 1.0 when omitted and I being 0.87,
\* 1.0, 1.15, 1.15 for risk categories I to IV and 1.0 for a riskCategory
\* omitted or outside the enumeration.
C10_VelocityPressureFormula ==
    result.velocityPressurePsf =
        RoundTo(DecProduct(DecOfInt(256, 5),
                           << locals.kz,
                              IF input.topographicFactor = Undef THEN Whole(1)
                              ELSE input.topographicFactor,
                              IF input.khFactor = Undef THEN Whole(1) ELSE input.khFactor,
                              input.windSpeedMph, input.windSpeedMph,
                              Num(ImportanceTable(input.riskCategory)) >>), 3)

C10_Witness ==
    /\ input.riskCategory = "IV"
    /\ input.topographicFactor = Num(12500)
    /\ input.khFactor = Num(9000)
    /\ input.windSpeedMph = Whole(115)
    /\ locals.kz = Num(5750)
    /\ result.velocityPressurePsf = Num(251860)

\* C11: Kd is not applied in the velocity-pressure stage: two calls whose
\* inputs differ only in directionalityFactor return the same
\* velocityPressurePsf, and their pressureNotes differ only in the Kd shown by
\* the factor-summary note.
C11_KdNotInVelocityPressure ==
    [][([input' EXCEPT !.directionalityFactor = input.directionalityFactor] = input)
       => /\ result'.velocityPressurePsf = result.velocityPressurePsf
          /\ result'.pressureNotes =
                 [result.pressureNotes EXCEPT ![1].kd = ToFixed(locals'.kd, 2)]
          /\ locals'.kd = Coalesce(input'.directionalityFactor, Num(8500))]_vars

C11_Witness ==
    /\ input = [PlainInput EXCEPT !.directionalityFactor = Num(9000)]
    /\ result.pressureNotes[1].kd = [s |-> "num", v |-> 90, d |-> 2]
    /\ result.velocityPressurePsf = Num(194670)

\* r = roofL / roofB is at most n / d, for n, d > 0; against the smallest
\* positive double an ordinary length gives r = Infinity, and the smallest
\* positive double against an ordinary length gives r below every band limit
PlanRatioAtMost(roofL, roofB, n, d) ==
    CASE roofL.k = roofB.k -> roofL.v * d <= n * roofB.v
      [] roofL.k = "sub" -> TRUE
      [] roofB.k = "sub" -> FALSE

\* The coefficient cp is the fraction n / d
IsFraction(cp, n, d) == cp.n * d = n * cp.d

\* C12: leeward Cp is -0.5 for r <= 1, -0.5 + (r - 1) * 0.2 for 1 < r <= 2,
\* -0.3 + (r - 2) * 0.05 for 2 < r <= 4 and -0.2 for r > 4, with r = L / B;
\* it is exactly -0.5, -0.3, -0.2 at r = 1, 2, 4; windward is 0.8 and
\* sidewall -0.7 for every plan.
C12_LeewardCpBands ==
    /\ IsFraction(coef.wallCp.windward, 8, 10)
    /\ IsFraction(coef.wallCp.sidewall, -7, 10)
    /\ PlanRatioAtMost(coef.roofL, coef.roofB, 1, 1) =>
           IsFraction(coef.wallCp.leeward, -1, 2)
    /\ (~PlanRatioAtMost(coef.roofL, coef.roofB, 1, 1)
        /\ PlanRatioAtMost(coef.roofL, coef.roofB, 2, 1)) =>
           IsFraction(coef.wallCp.leeward, 2 * coef.roofL.v - 7 * coef.roofB.v,
                      10 * coef.roofB.v)
    /\ (~PlanRatioAtMost(coef.roofL, coef.roofB, 2, 1)
        /\ PlanRatioAtMost(coef.roofL, coef.roofB, 4, 1)) =>
           IsFraction(coef.wallCp.leeward, coef.roofL.v - 8 * coef.roofB.v,
                      20 * coef.roofB.v)
    /\ ~PlanRatioAtMost(coef.roofL, coef.roofB, 4, 1) =>
           IsFraction(coef.wallCp.leeward, -1, 5)
    /\ (coef.roofL.k = coef.roofB.k /\ coef.roofL.v = 2 * coef.roofB.v) =>
           IsFraction(coef.wallCp.leeward, -3, 10)
    /\ (coef.roofL.k = coef.roofB.k /\ coef.roofL.v = 4 * coef.roofB.v) =>
           IsFraction(coef.wallCp.leeward, -1, 5)

C12_Witness ==
    /\ coef.roofL = Whole(6)
    /\ coef.roofB = Whole(2)
    /\ coef.wallCp.leeward = [n |-> -1, d |-> 4]

\* The roof coefficients are the fractions of tenths ts, in order
IsTenths(cps, ts) ==
    /\ Len(cps) = Len(ts)
    /\ \A i \in 1..Len(ts) : IsFraction(cps[i], ts[i], 10)

\* C13: for a flat roof zone2 is 0.5 and (zone1, zone3) is (0.8, -0.7) for
\* r <= 0.5, (0.7, -0.6) for 0.5 < r <= 1, (0.6, -0.5) for 1 < r <= 2 and
\* (0.5, -0.4) for r > 2, with r = L / B (L = 100, B = 50 gives 0.6 and
\* -0.5); for a sloped roof the values are windward 0.3 and leeward -0.7
\* whatever L and B.
C13_RoofCpBands ==
    /\ coef.roofType = "flat" =>
           /\ PlanRatioAtMost(coef.roofL, coef.roofB, 1, 2) =>
                  IsTenths(coef.roofCp, << 8, 5, -7 >>)
           /\ (~PlanRatioAtMost(coef.roofL, coef.roofB, 1, 2)
               /\ PlanRatioAtMost(coef.roofL, coef.roofB, 1, 1)) =>
                  IsTenths(coef.roofCp, << 7, 5, -6 >>)
           /\ (~PlanRatioAtMost(coef.roofL, coef.roofB, 1, 1)
               /\ PlanRatioAtMost(coef.roofL, coef.roofB, 2, 1)) =>
                  IsTenths(coef.roofCp, << 6, 5, -5 >>)
           /\ ~PlanRatioAtMost(coef.roofL, coef.roofB, 2, 1) =>
                  IsTenths(coef.roofCp, << 5, 5, -4 >>)
           /\ (coef.roofL = Whole(100) /\ coef.roofB = Whole(50)) =>
                  IsTenths(coef.roofCp, << 6, 5, -5 >>)
    /\ coef.roofType = "sloped" => IsTenths(coef.roofCp, << 3, -7 >>)

C13_Witness ==
    /\ coef.roofType = "flat"
    /\ coef.roofL = Whole(4)
    /\ coef.roofB = Whole(8)
    /\ coef.roofCp = << [n |-> 4, d |-> 5], [n |-> 1, d |-> 2], [n |-> -7, d |-> 10] >>

\* C14: pressureNotes is [factor summary, (override-used note)?, formula
\* citation]: its length is 2 or 3, the factor summary is first and the
\* formula citation last, and the override-used note is there, in the
\* middle, exactly when the effective Kz differs from the computed Kz, and
\* then it reports the computed Kz.
C14_NotesShape ==
    /\ Len(result.pressureNotes) \in {2, 3}
    /\ result.pressureNotes[1].kind = "factors"
    /\ result.pressureNotes[Len(result.pressureNotes)].kind = "formula"
    /\ (Len(result.pressureNotes) = 3) <=> (locals.kz # locals.computedKz)
    /\ Len(result.pressureNotes) = 3 =>
           /\ result.pressureNotes[2].kind = "override"
           /\ result.pressureNotes[2].auto = ToFixed(GetKz(input.exposure, input.heightFt), 3)

C14_Witness ==
    /\ input.overrideKz = Whole(1)
    /\ input.exposure = "B"
    /\ input.heightFt = Whole(15)
    /\ Len(result.pressureNotes) = 3
    /\ result.pressureNotes[2] = [kind |-> "override", auto |-> [s |-> "num", v |-> 575, d |-> 3]]

\* The override the form holds: Number(manualKz) when useManualKz is set
FormOverride == IF form.useManualKz THEN JsNumber(form.manualKz) ELSE Undef

\* calculateVelocityPressure at heightFt = (i - 0.5) * h with the form's wind
\* speed, exposure, risk category and override
StoryQz(i) ==
    CalculateVelocityPressure(
        WindInput(JsNumber(form.windSpeedMph), form.exposure,
                  Num(((2 * i - 1) * JsNumber(form.storyHeightFt).v) \div 2),
                  JsNumber(form.directionalityFactor), Undef, form.riskCategory,
                  FormOverride, Undef)).velocityPressurePsf

\* C15: a valid form of n stories of height h has exactly n per-story
\* velocity pressures, entry i being calculateVelocityPressure at
\* (i - 0.5) * h, and the story labels are 'Story i qz (psf)' for i = 1..n
\* in the same order.
C15_PerStorySeries ==
    out.isValid =>
        /\ Len(out.perStoryPressuresPsf) = MathFloor(JsNumber(form.numStories)).v \div Unit
        /\ \A i \in 1..Len(out.perStoryPressuresPsf) : out.perStoryPressuresPsf[i] = StoryQz(i)
        /\ Len(out.storyPressures) = Len(out.perStoryPressuresPsf)
        /\ \A i \in 1..Len(out.storyPressures) :
               /\ out.storyPressures[i].label = << "Story", i, "qz (psf)" >>
               /\ out.storyPressures[i].value = out.perStoryPressuresPsf[i]

C15_Witness ==
    /\ out.isValid
    /\ form.numStories = "3"
    /\ form.storyHeightFt = "20"
    /\ Len(out.perStoryPressuresPsf) = 3
    /\ out.perStoryPressuresPsf[1] = Num(194670)
    /\ out.perStoryPressuresPsf[2] = Num(237330)
    /\ out.perStoryPressuresPsf[3].v > 237330

\* The WindInput is one the form may pass to the engine
AcceptedInput(in) ==
    /\ in.windSpeedMph.k = "num" /\ in.windSpeedMph.v > 0 /\ in.windSpeedMph.v < 300 * Unit
    /\ in.heightFt.k = "num" /\ in.heightFt.v > 0
    /\ in.directionalityFactor.k = "num"
    /\ in.directionalityFactor.v > 0 /\ in.directionalityFactor.v <= Unit
    /\ \/ in.overrideKz = Undef
       \/ /\ in.overrideKz.k = "num"
          /\ in.overrideKz.v > 3000 /\ in.overrideKz.v < 3 * Unit

\* C16: in every form state reachable by field edits
\* calculateVelocityPressure is called only when isValid holds, every
\* WindInput passed then has a finite windSpeedMph in (0, 300), a finite
\* heightFt > 0, a directionalityFactor in (0, 1] and an overrideKz undefined
\* or finite in (0.3, 3); when isValid is false the story, wall and roof
\* result sequences are empty.
C16_OnlyValidInputReachesEngine ==
    /\ out.calls # << >> => out.isValid
    /\ \A i \in 1..Len(out.calls) : AcceptedInput(out.calls[i])
    /\ ~out.isValid =>
           /\ out.storyPressures = << >>
           /\ out.wallPressures = << >>
           /\ out.roofPressuresGrouped = << >>

C16_Witness ==
    /\ form.useManualKz
    /\ form.manualKz = "1.2"
    /\ out.isValid
    /\ Len(out.calls) = 5
    /\ \A i \in 1..5 : out.calls[i].overrideKz = Num(12000)

\* C19: in every valid form state the 'Top story qz (psf)' value equals the
\* last element of the per-story qz series, and the per-story, top-story and
\* wall-height calls of calculateVelocityPressure all receive the same
\* overrideKz.
C19_TopStoryIsLastStory ==
    out.isValid =>
        /\ out.topQz = out.perStoryPressuresPsf[Len(out.perStoryPressuresPsf)]
        /\ \A i \in 1..Len(out.calls) : out.calls[i].overrideKz = FormOverride

C19_Witness ==
    /\ out.isValid
    /\ form.useManualKz
    /\ form.manualKz = "0.575"
    /\ Len(out.perStoryPressuresPsf) = 3
    /\ out.topQz = out.perStoryPressuresPsf[3]
    /\ out.calls[5].overrideKz = Num(5750)

\* C17: getGcpiValues('enclosed') is (0.18, -0.18) and
\* getGcpiValues('partially_enclosed') is (0.55, -0.55); negative is
\* -positive for every enclosure, and getGcpiEnclosed() returns the pair of
\* getGcpiValues('enclosed').
C17_GcpiLookup ==
    /\ coef.buildingEnclosure = "enclosed" =>
           /\ coef.gcpi = [positive |-> Num(1800), negative |-> Num(-1800)]
           /\ coef.gcpiEnclosed = coef.gcpi
    /\ coef.buildingEnclosure = "partially_enclosed" =>
           coef.gcpi = [positive |-> Num(5500), negative |-> Num(-5500)]
    /\ coef.gcpi.negative.k = "num" /\ coef.gcpi.positive.k = "num"
    /\ coef.gcpi.negative.v = -coef.gcpi.positive.v
    /\ coef.gcpiEnclosed = [positive |-> Num(1800), negative |-> Num(-1800)]

C17_Witness ==
    /\ coef.buildingEnclosure = "partially_enclosed"
    /\ coef.gcpi.positive = Num(5500)
    /\ coef.gcpi.negative = Num(-5500)
    /\ coef.gcpiEnclosed.positive = Num(1800)

\* The scenario: V = 115 mph, exposure B, heightFt = 15, Kzt = 1.0, Kh = 1.0,
\* risk category II, Kd = 0.85, no override
IsScenario ==
    /\ input.windSpeedMph = Whole(115) /\ input.exposure = "B" /\ input.heightFt = Whole(15)
    /\ locals.kzt = Whole(1) /\ locals.kh = Whole(1) /\ locals.riskCategory = "II"
    /\ locals.kd = Num(8500) /\ input.overrideKz = Undef

\* A times m^k
RECURSIVE TimesPower(_, _, _)
TimesPower(A, m, k) == IF k = 0 THEN A ELSE TimesPower(BigMul(A, m), m, k - 1)

\* 2.01 * (15 / 1200)^(2 / 7) rounds to t thousandths, in whole numbers:
\* (2t - 1)^7 * 1200^2 <= 4020^7 * 15^2 < (2t + 1)^7 * 1200^2
ScenarioKzRoundsTo(t) ==
    /\ BigCmp(TimesPower(BigOfNat(1200 * 1200), 2 * t - 1, 7),
              TimesPower(BigOfNat(15 * 15), 4020, 7)) <= 0
    /\ BigCmp(TimesPower(BigOfNat(15 * 15), 4020, 7),
              TimesPower(BigOfNat(1200 * 1200), 2 * t + 1, 7)) < 0

\* C18 (as stated): the scenario reports Kz = 0.577 in the factor-summary
\* note and returns about 19.56 psf (19.56 to two decimals).
C18_ScenarioAsStated ==
    IsScenario =>
        /\ ReportedKz(result) = [s |-> "num", v |-> 577, d |-> 3]
        /\ result.velocityPressurePsf.k = "num"
        /\ result.velocityPressurePsf.v >= 195550
        /\ result.velocityPressurePsf.v < 195650

\* C18 (amended): the scenario reports Kz = 0.575, which is
\* 2.01 * (15 / 1200)^(2 / 7) rounded to 3 decimals, and returns
\* 0.00256 * 0.575 * 115^2 * 1.0 rounded to 3 decimals, 19.467 psf.
C18_ScenarioKz0575 ==
    IsScenario =>
        /\ ReportedKz(result) = [s |-> "num", v |-> 575, d |-> 3]
        /\ locals.computedKz = Num(5750)
        /\ ScenarioKzRoundsTo(575)
        /\ ~ScenarioKzRoundsTo(577)
        /\ result.velocityPressurePsf = Num(194670)
        /\ 256 * 575 * 115 * 115 = 1946720000

C18_Witness ==
    /\ IsScenario
    /\ input.riskCategory = "II"
    /\ result.velocityPressurePsf = Num(194670)
    /\ result.pressureNotes[1].kz = [s |-> "num", v |-> 575, d |-> 3]

DrawnProps(p) == << p.roofType, p.velocityPressurePsf, p.roofLength, p.roofWidth >>

\* C21: the roof diagram is never stale: a re-render that changes a prop the
\* diagram draws from (roofType, velocityPressurePsf, roofLength, roofWidth)
\* requests a frame for the new props, also when only roofLength or roofWidth
\* changed, and a frame requested for superseded props is cancelled, so that
\* a requested frame always draws the current props.
C21_DiagramNeverStale ==
    [][(diagram.mounted /\ diagram'.mounted)
       => /\ DrawnProps(diagram'.props) # DrawnProps(diagram.props) =>
                 diagram'.frame = RequestedFrame(diagram'.props)
          /\ diagram'.frame.pending =>
                 DrawnProps(diagram'.frame.props) = DrawnProps(diagram'.props)]_vars
====
